---- MODULE Spec2Model ----
(***************************************************************************)
(* A model of paperless-annotations (package plannotations):               *)
(*   - the annotation storage backends of annostorage.py (notes of the     *)
(*     document service, and the local DbAnnotation table), with the note  *)
(*     content codec and the serializers;                                  *)
(*   - the document link synchronisation of auto_linking.py on top of the  *)
(*     client of paperless_api.py.                                         *)
(* Python strings are TLA+ strings; Optional values are <<>> (None) or     *)
(* <<v>>.  The document service itself is outside the repository: it is    *)
(* modelled as the state the client calls read and write.                  *)
(***************************************************************************)
EXTENDS Integers, Sequences, FiniteSets, TLC

VARIABLES
    anno_storage,     \* core.settings.ANNO_STORAGE, fixed per deployment
    anno_serializer,  \* core.settings.ANNO_SERIALIZER, fixed per deployment
    notes,            \* document service: doc id -> list of Note [id, note]
    nextNoteId,       \* document service: id the next created note gets
    rows,             \* DbAnnotation table: list of rows, in id order
    nextRowId,        \* DbAnnotation table: auto-increment id
    last              \* the storage call that has returned and is not yet
                      \* consumed by its caller: its arguments, its outcome
                      \* and the stores as they were when it was made

storeVars == <<anno_storage, anno_serializer, notes, nextNoteId, rows,
               nextRowId, last>>

VARIABLES
    custom_fields,        \* document service: the custom field definitions
    docs,                 \* document service: doc id -> custom field instances
    custom_field_cache,   \* auto_linking._custom_field_cache[CUSTOM_FIELD_NAME]
    create_calls,         \* create_custom_field calls made by this process
    create_done,          \* ... of which were answered with success
    field_at_first_call,  \* was the link field defined remotely when
                          \* _get_or_create_custom_link_field first ran
    lastLink,             \* the link call that has returned and is not yet
                          \* consumed, with the documents as they were before
    prevLink              \* what the link call before that one was

linkVars == <<custom_fields, docs, custom_field_cache, create_calls,
              create_done, field_at_first_call, lastLink, prevLink>>

VARIABLES
    loop_pc,        \* auto_update_links_loop: where the loop stands
    loop_user,      \* ... the user the for loop is at (0: query not yet made)
    updated_docs,   \* ... updated_docs of the cycle
    loop_written,   \* <<user, document>>: the writes made so far in the cycle
    loop_after_failure  \* the cycle before this one ended in an exception

loopVars == <<loop_pc, loop_user, updated_docs, loop_written,
              loop_after_failure>>

VARIABLES
    enable_auto_update_links,  \* core.settings.ENABLE_AUTO_UPDATE_LINKS
    task_queue,    \* task_auto_update_links results enqueued and not yet run,
                   \* each named by what enqueued it
    task_pc,       \* worker -> where the task it runs stands ("idle": none)
    task_cf,       \* worker -> cf of _get_or_create_custom_link_field
    task_absent,   \* worker -> its last lookup found no field of the name
    task_created   \* worker -> the field its create_custom_field call made

taskVars == <<enable_auto_update_links, task_queue, task_pc, task_cf,
              task_absent, task_created>>

vars == <<storeVars, linkVars, loopVars, taskVars>>

-----------------------------------------------------------------------------
(* Bounds of the model *)

MaxNoteId == 2
MaxRowId == 2
PageSize == 1        \* documents (or custom fields) per result page
MaxFaultAt == 3      \* a failing request is among the first MaxFaultAt of a call
MaxCreateCalls == 2  \* create_custom_field calls the model follows
NumUsers == 2        \* users with a paperless_api_token
MaxPage == 2         \* the highest page index a client asks for
NumWorkers == 2      \* workers of the task backend
MaxTasks == 2        \* task_auto_update_links results the model follows

Docs == {1, 2}
LinkDocs == {1, 2, 3}

-----------------------------------------------------------------------------
(* Optional values and strings *)

Null == <<>>
Some(v) == <<v>>
IsNull(o) == o = <<>>
Val(o) == o[1]

\* Python: sub in s
Contains(s, sub) ==
    \E i \in 1..(Len(s) - Len(sub) + 1) : SubSeq(s, i, i + Len(sub) - 1) = sub

\* Python: s.find(sub), 0-based, -1 when absent
Find(s, sub) ==
    LET hits == {i \in 1..(Len(s) - Len(sub) + 1) :
                    SubSeq(s, i, i + Len(sub) - 1) = sub}
    IN  IF hits = {} THEN -1
        ELSE (CHOOSE i \in hits : \A j \in hits : i <= j) - 1

\* Python: s.replace(a, b): every occurrence, left to right, non-overlapping
RECURSIVE Replace(_, _, _)
Replace(s, a, b) ==
    LET i == Find(s, a)
    IN  IF i = -1 THEN s
        ELSE SubSeq(s, 1, i) \o b
             \o Replace(SubSeq(s, i + Len(a) + 1, Len(s)), a, b)

-----------------------------------------------------------------------------
(* Serializers *)

JsonValueInt(o) == IF IsNull(o) THEN "null" ELSE ToString(Val(o))
JsonValueStr(o) == IF IsNull(o) THEN "null" ELSE "\"" \o Val(o) \o "\""

\* a model_dump that leaves the contents out
model_dump_without_contents(a) ==
    << <<"created", JsonValueStr(Some(a.created))>>,
       <<"author", JsonValueStr(Some(a.author))>>,
       <<"type", ToString(a.type)>>,
       <<"pageIndex", ToString(a.pageIndex)>>,
       <<"db_id", JsonValueInt(a.db_id)>> >>

\* annotation.model_dump(): the declared fields in order, then the extras
\* that are set, as (key, JSON value) pairs
model_dump(a) ==
    << <<"created", JsonValueStr(Some(a.created))>>,
       <<"author", JsonValueStr(Some(a.author))>>,
       <<"type", ToString(a.type)>>,
       <<"pageIndex", ToString(a.pageIndex)>>,
       <<"db_id", JsonValueInt(a.db_id)>>,
       <<"contents", JsonValueStr(a.contents)>> >>
    \o (IF IsNull(a.id) THEN <<>> ELSE << <<"id", JsonValueStr(a.id)>> >>)
    \o (IF IsNull(a.inReplyToId) THEN <<>>
        ELSE << <<"inReplyToId", JsonValueStr(a.inReplyToId)>> >>)

RECURSIVE JsonItems(_, _, _, _)
JsonItems(obj, i, itemSep, lead) ==
    IF i > Len(obj) THEN ""
    ELSE lead \o "\"" \o obj[i][1] \o "\": " \o obj[i][2]
         \o (IF i < Len(obj) THEN itemSep ELSE "")
         \o JsonItems(obj, i + 1, itemSep, lead)

\* json.dumps(obj)
JsonDumps(obj) == "{" \o JsonItems(obj, 1, ", ", "") \o "}"

\* json.dumps(obj, indent=2)
JsonDumpsIndent2(obj) == "{\n" \o JsonItems(obj, 1, ",\n", "  ") \o "\n}"

\* base64.b85encode(gzip.compress(...)): its output is drawn from the base85
\* alphabet, which has no blank, no quote and no line break.  The bytes are
\* modelled by an injective code over that alphabet.
B85Code(c) ==
    CASE c = " "  -> "~s"
      [] c = "\"" -> "~q"
      [] c = "\n" -> "~n"
      [] c = ":"  -> "~c"
      [] c = ","  -> "~k"
      [] c = "."  -> "~p"
      [] c = "~"  -> "~~"
      [] OTHER    -> c

\* the code of every character of s, in order (by halves)
RECURSIVE B85Gzip(_)
B85Gzip(s) ==
    IF Len(s) = 0 THEN ""
    ELSE IF Len(s) = 1 THEN B85Code(s)
    ELSE B85Gzip(SubSeq(s, 1, Len(s) \div 2))
         \o B85Gzip(SubSeq(s, Len(s) \div 2 + 1, Len(s)))

Base85GzipJSONSerializer_NAME == "85gj"
JsonSerializer_NAME == "ji2"

Base85GzipJSONSerializer_serialize(obj) == B85Gzip(JsonDumps(obj))
JsonSerializer_serialize(obj) == JsonDumpsIndent2(obj)

SerializerNames == {Base85GzipJSONSerializer_NAME, JsonSerializer_NAME}

\* the serialize of AnnoSerializer.get_serializer_by_name(name)
serialize(name, obj) ==
    IF name = Base85GzipJSONSerializer_NAME
    THEN Base85GzipJSONSerializer_serialize(obj)
    ELSE JsonSerializer_serialize(obj)

-----------------------------------------------------------------------------
(* Note content codec (PaperlessNotesStorage) *)

ANNOTATION_CONTENT_BEGIN == "------------ DATA BEGIN ------------"
ANNOTATION_CONTENT_END == "------------ DATA END ------------"

\* datetime.fromisoformat(created.replace("Z", "+00:00")) accepts the value:
\* YYYY-MM-DDTHH:MM:SSZ is the shape the model's timestamps have
IsIsoFormat(s) ==
    /\ Len(s) = 20
    /\ SubSeq(s, 5, 5) = "-" /\ SubSeq(s, 8, 8) = "-"
    /\ SubSeq(s, 11, 11) = "T"
    /\ SubSeq(s, 14, 14) = ":" /\ SubSeq(s, 17, 17) = ":"
    /\ SubSeq(s, 20, 20) = "Z"

\* dt.strftime("%Y.%m.%d %H:%M"), or the original value when it does not parse
created_formatted(created) ==
    IF IsIsoFormat(created)
    THEN SubSeq(created, 1, 4) \o "." \o SubSeq(created, 6, 7) \o "."
         \o SubSeq(created, 9, 10) \o " " \o SubSeq(created, 12, 16)
    ELSE created

\* note_annotation.template rendered with the context: the author, the
\* 1-based page, the creation time and the comment
render_template(ctx) ==
    ctx.author \o " - p. " \o ToString(ctx.page) \o " (" \o ctx.created
    \o ")\n\n" \o ctx.comment

build_note_header(a) ==
    Replace(render_template([author |-> a.author,
                             page |-> a.pageIndex + 1,
                             page_index |-> a.pageIndex,
                             created |-> created_formatted(a.created),
                             comment |-> IF IsNull(a.contents) THEN ""
                                         ELSE Val(a.contents),
                             type |-> a.type]),
            "\n\n", "\n")

\* the checks of _anno_to_note_content that raise ValueError
HeaderHasDelimiter(header) ==
    \/ Contains(header, ANNOTATION_CONTENT_BEGIN)
    \/ Contains(header, ANNOTATION_CONTENT_END)

SerializedHasDelimiter(serialized) ==
    \/ Contains(serialized, ANNOTATION_CONTENT_BEGIN)
    \/ Contains(serialized, ANNOTATION_CONTENT_END)

\* _anno_to_note_content: [ok, content]; ok = FALSE when it raises
anno_to_note_content(ser, a) ==
    LET serialized == serialize(ser, model_dump(a)) \o "\n"
        header == build_note_header(a)
    IN  IF HeaderHasDelimiter(header) \/ SerializedHasDelimiter(serialized)
        THEN [ok |-> FALSE, content |-> ""]
        ELSE [ok |-> TRUE,
              content |-> header \o "\n" \o ANNOTATION_CONTENT_BEGIN \o "\n"
                          \o ser \o "\n" \o serialized
                          \o ANNOTATION_CONTENT_END]

-----------------------------------------------------------------------------
(* Annotations the callers pass in *)

Annotation(id, pageIndex, contents, inReplyToId) ==
    [created |-> "2024-03-01T10:00:00Z", author |-> "alice", type |-> 1,
     pageIndex |-> pageIndex, db_id |-> Null, contents |-> contents,
     id |-> Some(id), inReplyToId |-> inReplyToId]

AnnoInputs ==
    {Annotation("A", 2, Some("see note"), Null),
     Annotation("A", 0, Null, Null),
     Annotation("A", 0, Some(ANNOTATION_CONTENT_BEGIN), Null),
     Annotation("B", 1, Some("x " \o ANNOTATION_CONTENT_END), Some("A")),
     Annotation("C", -1, Some("margin"), Null)}

WithDbId(a, db_id) == [a EXCEPT !.db_id = db_id]

ThreadAnnotation(id, pageIndex, inReplyToId) ==
    Annotation(id, pageIndex, Some("note " \o id), inReplyToId)

\* a thread: A, its replies B and C on A's page, its reply D on another
\* page, and E, a reply to B
Thread ==
    <<ThreadAnnotation("A", 0, Null), ThreadAnnotation("B", 0, Some("A")),
      ThreadAnnotation("C", 0, Some("A")), ThreadAnnotation("D", 1, Some("A")),
      ThreadAnnotation("E", 0, Some("B"))>>

\* no annotation: the value of last.anno for calls that take none
NoAnno == Annotation("", 0, Null, Null)

-----------------------------------------------------------------------------
(* The document service's notes, as PaperlessAPI reaches them.  Every       *)
(* request either is answered with a success status, or fails (transport   *)
(* error or error status: _request raises PaperlessAPIError) and then has   *)
(* had no effect.                                                          *)

Responses == {"ok", "error"}

NoteIds(ns) == {ns[i].id : i \in 1..Len(ns)}

RemoveNote(ns, id) == SelectSeq(ns, LAMBDA n : n.id # id)

\* PaperlessAPI.add_note_to_document: POST .../notes/ answers with the
\* document's notes, the new one last; the client returns notes[-1]
add_note_to_document(ns, newId, note) ==
    LET answered == Append(ns, [id |-> newId, note |-> note])
    IN  [notes |-> answered, ret |-> answered[Len(answered)]]

\* PaperlessAPI.delete_note: the value returned when the request was answered
\* with a success status
delete_note_returns(ns, note_id) == TRUE

\* PaperlessNotesStorage.delete_annotation_by_id
notes_delete_annotation_by_id_returns(ns, db_id) == delete_note_returns(ns, db_id)

-----------------------------------------------------------------------------
(* The storage call that has just returned *)

Call(op, doc_id, anno, db_id, result, ret_id, ret_bool, writes) ==
    [op |-> op, doc_id |-> doc_id, anno |-> anno, db_id |-> db_id,
     result |-> result, ret_id |-> ret_id, ret_bool |-> ret_bool,
     writes |-> writes, pre_notes |-> notes, pre_rows |-> rows,
     docs_to_skip |-> {}, ret_docs |-> {}, page |-> Null, ret_annos |-> <<>>,
     note |-> "", ret_obj |-> <<>>]

NoCall ==
    [op |-> "none", doc_id |-> 0, anno |-> NoAnno, db_id |-> Null,
     result |-> "none", ret_id |-> Null, ret_bool |-> Null, writes |-> <<>>,
     pre_notes |-> [d \in Docs |-> <<>>], pre_rows |-> <<>>,
     docs_to_skip |-> {}, ret_docs |-> {}, page |-> Null, ret_annos |-> <<>>,
     note |-> "", ret_obj |-> <<>>]

Idle == last.op = "none"

\* the caller takes the result
Return ==
    /\ ~Idle
    /\ last' = NoCall
    /\ UNCHANGED <<linkVars, loopVars, taskVars, anno_storage, anno_serializer, notes, nextNoteId, rows,
                   nextRowId>>

-----------------------------------------------------------------------------
(* PaperlessNotesStorage *)

\* create_annotation(doc_id, annotation); addResp is the service's answer to
\* the POST, were it sent
NotesCreate(doc_id, a, addResp) ==
    LET enc == anno_to_note_content(anno_serializer, a)
        added == add_note_to_document(notes[doc_id], nextNoteId, enc.content)
    IN  /\ Idle /\ anno_storage = "paperless_notes"
        /\ nextNoteId <= MaxNoteId
        /\ IF ~enc.ok
           THEN /\ UNCHANGED <<notes, nextNoteId>>
                /\ last' = Call("create", doc_id, a, Null,
                                "ReservedDelimiterCollision", Null, Null, <<>>)
           ELSE IF addResp = "error"
           THEN /\ UNCHANGED <<notes, nextNoteId>>
                /\ last' = Call("create", doc_id, a, Null,
                                "PaperlessAPIError", Null, Null, <<>>)
           ELSE /\ notes' = [notes EXCEPT ![doc_id] = added.notes]
                /\ nextNoteId' = nextNoteId + 1
                /\ last' = Call("create", doc_id, a, Null, "ok",
                                Some(added.ret.id), Null,
                                << <<"add", added.ret.id>> >>)
        /\ UNCHANGED <<linkVars, loopVars, taskVars, anno_storage, anno_serializer, rows, nextRowId>>

\* delete_annotation_by_id(doc_id, db_id); resp is the service's answer to the
\* DELETE.  A note that is not on the document is not removed, whatever the
\* answer.
NotesDelete(doc_id, db_id, resp) ==
    LET present == db_id \in NoteIds(notes[doc_id])
    IN  /\ Idle /\ anno_storage = "paperless_notes"
        /\ IF resp = "error"
           THEN /\ UNCHANGED notes
                /\ last' = Call("delete", doc_id, NoAnno, Some(db_id),
                                "PaperlessAPIError", Null, Null, <<>>)
           ELSE /\ notes' = [notes EXCEPT ![doc_id] = RemoveNote(@, db_id)]
                /\ last' = Call("delete", doc_id, NoAnno, Some(db_id),
                                "ok", Null,
                                Some(notes_delete_annotation_by_id_returns(
                                        notes[doc_id], db_id)),
                                IF present THEN << <<"delete", db_id>> >>
                                ELSE <<>>)
        /\ UNCHANGED <<linkVars, loopVars, taskVars, anno_storage, anno_serializer, nextNoteId, rows,
                       nextRowId>>

\* the guard of update_annotation on the annotation's db_id
notes_update_missing_id(a) == IsNull(a.db_id)

\* update_annotation written the other way round: the new note is created
\* first and the old one removed afterwards
notes_update_annotation_create_first(ns, newId, ser, a, delResp, addResp) ==
    LET old_note_id == a.db_id
        enc == anno_to_note_content(ser, a)
        added == add_note_to_document(ns, newId, enc.content)
        addWrites == << <<"add", added.ret.id>> >>
        Raise(result, after, writes) ==
            [result |-> result, notes |-> after, ret_id |-> Null,
             writes |-> writes]
    IN  IF notes_update_missing_id(a)
        THEN Raise("MissingIdentifier", ns, <<>>)
        ELSE IF ~enc.ok
        THEN Raise("ReservedDelimiterCollision", ns, <<>>)
        ELSE IF addResp = "error"
        THEN Raise("PaperlessAPIError", ns, <<>>)
        ELSE IF delResp = "error"
        THEN Raise("PaperlessAPIError", added.notes, addWrites)
        ELSE [result |-> "ok",
              notes |-> RemoveNote(added.notes, Val(old_note_id)),
              ret_id |-> Some(added.ret.id),
              writes |-> IF Val(old_note_id) \in NoteIds(ns)
                         THEN Append(addWrites, <<"delete", Val(old_note_id)>>)
                         ELSE addWrites]

\* update_annotation as the old note's removal followed by the new note's
\* creation, each behind its own failure: the document's notes afterwards,
\* the outcome, the id of the returned annotation and the writes made.
\* delResp and addResp are the service's answers to the DELETE and to the
\* POST, were they sent.
notes_update_annotation(ns, newId, ser, a, delResp, addResp) ==
    LET old_note_id == a.db_id
        present == Val(old_note_id) \in NoteIds(ns)
        afterDelete == IF present THEN RemoveNote(ns, Val(old_note_id)) ELSE ns
        delWrites == IF present THEN << <<"delete", Val(old_note_id)>> >>
                     ELSE <<>>
        enc == anno_to_note_content(ser, a)
        added == add_note_to_document(afterDelete, newId, enc.content)
        Raise(result, after, writes) ==
            [result |-> result, notes |-> after, ret_id |-> Null,
             writes |-> writes]
    IN  IF notes_update_missing_id(a)
        THEN Raise("MissingIdentifier", ns, <<>>)
        ELSE IF delResp = "error"
        THEN Raise("PaperlessAPIError", ns, <<>>)
        ELSE IF ~notes_delete_annotation_by_id_returns(ns, Val(old_note_id))
        THEN Raise("NotFound", afterDelete, delWrites)
        ELSE IF ~enc.ok
        THEN Raise("ReservedDelimiterCollision", afterDelete, delWrites)
        ELSE IF addResp = "error"
        THEN Raise("PaperlessAPIError", afterDelete, delWrites)
        ELSE [result |-> "ok", notes |-> added.notes,
              ret_id |-> Some(added.ret.id),
              writes |-> Append(delWrites, <<"add", added.ret.id>>)]

\* update_annotation(doc_id, updated_annotation)
NotesUpdate(doc_id, a, delResp, addResp) ==
    LET out == notes_update_annotation(notes[doc_id], nextNoteId,
                                       anno_serializer, a, delResp, addResp)
    IN  /\ Idle /\ anno_storage = "paperless_notes"
        /\ nextNoteId <= MaxNoteId
        /\ notes' = [notes EXCEPT ![doc_id] = out.notes]
        /\ nextNoteId' = IF out.result = "ok" THEN nextNoteId + 1 ELSE nextNoteId
        /\ last' = Call("update", doc_id, a, a.db_id, out.result, out.ret_id,
                        Null, out.writes)
        /\ UNCHANGED <<linkVars, loopVars, taskVars, anno_storage, anno_serializer, rows, nextRowId>>

-----------------------------------------------------------------------------
(* DatabaseAnnotationStorage, on the DbAnnotation table *)

\* a lookup by id alone
objects_get_by_id(rs, id, doc_id) ==
    {i \in 1..Len(rs) : ~IsNull(id) /\ rs[i].id = Val(id)}

\* DbAnnotation.objects.get(id=id, doc_id=doc_id): the indices of the matching
\* rows.  id=None is the lookup "id IS NULL", which no row satisfies.
objects_get(rs, id, doc_id) ==
    {i \in 1..Len(rs) : ~IsNull(id) /\ rs[i].id = Val(id) /\ rs[i].doc_id = doc_id}

\* annotation.db_id or 0
db_id_or_0(a) == IF IsNull(a.db_id) THEN 0 ELSE Val(a.db_id)

\* create_annotation(doc_id, annotation)
DbCreate(doc_id, a) ==
    /\ Idle /\ anno_storage = "database"
    /\ nextRowId <= MaxRowId
    /\ rows' = Append(rows, [id |-> nextRowId, doc_id |-> doc_id,
                             db_id |-> db_id_or_0(a),
                             page_index |-> a.pageIndex,
                             anno_obj |-> model_dump(a)])
    /\ nextRowId' = nextRowId + 1
    /\ last' = Call("create", doc_id, a, Null, "ok",
                    Some(nextRowId), Null, << <<"insert", nextRowId>> >>)
    /\ UNCHANGED <<linkVars, loopVars, taskVars, anno_storage, anno_serializer, notes, nextNoteId>>

\* update_annotation(doc_id, updated_annotation)
DbUpdate(doc_id, a) ==
    LET found == objects_get(rows, a.db_id, doc_id)
    IN  /\ Idle /\ anno_storage = "database"
        /\ IF found = {}
           THEN /\ UNCHANGED rows
                /\ last' = Call("update", doc_id, a, a.db_id,
                                "DoesNotExist", Null, Null, <<>>)
           ELSE LET i == CHOOSE i \in found : TRUE
                IN  /\ rows' = [rows EXCEPT ![i].page_index = a.pageIndex,
                                            ![i].anno_obj = model_dump(a)]
                    /\ last' = Call("update", doc_id, a, a.db_id,
                                    "ok", a.db_id, Null,
                                    << <<"save", rows[i].id>> >>)
        /\ UNCHANGED <<linkVars, loopVars, taskVars, anno_storage, anno_serializer, notes, nextNoteId,
                       nextRowId>>

\* delete_annotation_by_id(doc_id, db_id)
DbDelete(doc_id, db_id) ==
    LET found == objects_get(rows, Some(db_id), doc_id)
    IN  /\ Idle /\ anno_storage = "database"
        /\ IF found = {}
           THEN /\ UNCHANGED rows
                /\ last' = Call("delete", doc_id, NoAnno,
                                Some(db_id), "ok", Null, Some(FALSE), <<>>)
           ELSE /\ rows' = SelectSeq(rows, LAMBDA r :
                                ~(r.id = db_id /\ r.doc_id = doc_id))
                /\ last' = Call("delete", doc_id, NoAnno,
                                Some(db_id), "ok", Null, Some(TRUE),
                                << <<"delete", db_id>> >>)
        /\ UNCHANGED <<linkVars, loopVars, taskVars, anno_storage, anno_serializer, notes, nextNoteId,
                       nextRowId>>

-----------------------------------------------------------------------------
(* Reading annotations back *)

\* int(v) for a decimal literal
Digit(c) == CHOOSE d \in 0..9 : ToString(d) = c

RECURSIVE ParseInt(_)
ParseInt(v) ==
    IF Len(v) = 1 THEN Digit(v)
    ELSE IF SubSeq(v, 1, 1) = "-" THEN 0 - ParseInt(SubSeq(v, 2, Len(v)))
    ELSE 10 * ParseInt(SubSeq(v, 1, Len(v) - 1)) + Digit(SubSeq(v, Len(v), Len(v)))

FromJsonInt(v) == IF v = "null" THEN Null ELSE Some(ParseInt(v))
FromJsonStr(v) == IF v = "null" THEN Null ELSE Some(SubSeq(v, 2, Len(v) - 1))

\* the value of a key of a (key, JSON value) object; Null when it has none
Member(obj, key) ==
    LET hits == {i \in 1..Len(obj) : obj[i][1] = key}
    IN  IF hits = {} THEN Null ELSE Some(obj[CHOOSE i \in hits : TRUE][2])

\* Annotation(**obj): the declared fields and the extras
Annotation_from_obj(obj) ==
    LET str(key) == IF IsNull(Member(obj, key)) THEN Null
                    ELSE FromJsonStr(Val(Member(obj, key)))
        int(key) == IF IsNull(Member(obj, key)) THEN Null
                    ELSE FromJsonInt(Val(Member(obj, key)))
    IN  [created |-> Val(str("created")),
         author |-> IF IsNull(str("author")) THEN "" ELSE Val(str("author")),
         type |-> Val(int("type")),
         pageIndex |-> Val(int("pageIndex")),
         db_id |-> int("db_id"),
         contents |-> str("contents"),
         id |-> str("id"),
         inReplyToId |-> str("inReplyToId")]

\* the JSON value is a string / an integer
IsJsonStr(v) == Len(v) >= 2 /\ SubSeq(v, 1, 1) = "\"" /\ SubSeq(v, Len(v), Len(v)) = "\""
IsJsonInt(v) ==
    /\ Len(v) >= 1
    /\ \A i \in 1..Len(v) :
          \/ \E d \in 0..9 : ToString(d) = SubSeq(v, i, i)
          \/ i = 1 /\ Len(v) > 1 /\ SubSeq(v, 1, 1) = "-"

\* Annotation(**obj) validates: created: str, type: int and pageIndex: int
\* are required; otherwise pydantic raises ValidationError
ValidAnnotationObj(obj) ==
    /\ ~IsNull(Member(obj, "created")) /\ IsJsonStr(Val(Member(obj, "created")))
    /\ ~IsNull(Member(obj, "type")) /\ IsJsonInt(Val(Member(obj, "type")))
    /\ ~IsNull(Member(obj, "pageIndex")) /\ IsJsonInt(Val(Member(obj, "pageIndex")))

AnnotationKeys ==
    <<"created", "author", "type", "pageIndex", "db_id", "contents", "id",
      "inReplyToId">>

\* the JSON text of the value that follows `"key": ` in s; Null when s has
\* no such key.  A string value runs to its closing quote, any other value
\* to the next comma, line break or closing brace.
JsonMember(s, key) ==
    LET k == "\"" \o key \o "\": "
        i == Find(s, k)
        rest == SubSeq(s, i + Len(k) + 1, Len(s))
        ends == {Find(rest, ","), Find(rest, "\n"), Find(rest, "}")} \ {-1}
    IN  IF i = -1 THEN Null
        ELSE IF SubSeq(rest, 1, 1) = "\""
        THEN Some(SubSeq(rest, 1, Find(SubSeq(rest, 2, Len(rest)), "\"") + 2))
        ELSE Some(SubSeq(rest, 1, CHOOSE e \in ends : \A f \in ends : e <= f))

\* json.loads(s) for the objects json.dumps writes
RECURSIVE JsonLoadsFrom(_, _)
JsonLoadsFrom(s, i) ==
    IF i > Len(AnnotationKeys) THEN <<>>
    ELSE (IF IsNull(JsonMember(s, AnnotationKeys[i])) THEN <<>>
          ELSE << <<AnnotationKeys[i], Val(JsonMember(s, AnnotationKeys[i]))>> >>)
         \o JsonLoadsFrom(s, i + 1)

JsonLoads(s) == JsonLoadsFrom(s, 1)

\* a decoder that hands the text on as it is
B85Gunzip_unchanged(s) == s

\* gzip.decompress(base64.b85decode(...)): the inverse of the code
B85Gunzip(s) ==
    LET t0 == Replace(s, "~~", "\t")
        t1 == Replace(t0, "~s", " ")
        t2 == Replace(t1, "~q", "\"")
        t3 == Replace(t2, "~n", "\n")
        t4 == Replace(t3, "~c", ":")
        t5 == Replace(t4, "~k", ",")
        t6 == Replace(t5, "~p", ".")
    IN  Replace(t6, "\t", "~")

Base85GzipJSONSerializer_deserialize(s) == JsonLoads(B85Gunzip(s))
JsonSerializer_deserialize(s) == JsonLoads(s)

\* the deserialize of AnnoSerializer.get_serializer_by_name(name)
deserialize(name, s) ==
    IF name = Base85GzipJSONSerializer_NAME
    THEN Base85GzipJSONSerializer_deserialize(s)
    ELSE JsonSerializer_deserialize(s)

\* str.strip()
Strip(s) ==
    LET solid == {i \in 1..Len(s) : SubSeq(s, i, i) \notin {" ", "\n"}}
    IN  IF solid = {} THEN ""
        ELSE SubSeq(s, CHOOSE i \in solid : \A j \in solid : i <= j,
                       CHOOSE i \in solid : \A j \in solid : j <= i)

\* what a decoding step ends in: an annotation, None, or an exception
Decoded(anno) == [ok |-> TRUE, anno |-> anno, raised |-> ""]
DecodedNone == [ok |-> FALSE, anno |-> NoAnno, raised |-> ""]
DecodeRaised(exception) == [ok |-> FALSE, anno |-> NoAnno, raised |-> exception]

\* json.loads(s): an object of json.dumps, null, or JSONDecodeError
json_loads(s) ==
    IF s = "null" THEN DecodedNone
    ELSE IF Len(s) >= 2 /\ SubSeq(s, 1, 1) = "{" /\ SubSeq(s, Len(s), Len(s)) = "}"
    THEN [ok |-> TRUE, anno |-> JsonLoads(s), raised |-> ""]
    ELSE DecodeRaised("JSONDecodeError")

\* base64.b85decode and gzip.decompress accept what the encoder can have
\* written
IsB85Gzip(s) == B85Gzip(B85Gunzip(s)) = s

\* serializer.deserialize(data_area): [ok, anno: the object, raised]
deserialize_outcome(name, s) ==
    IF name = Base85GzipJSONSerializer_NAME
    THEN IF IsB85Gzip(s) THEN json_loads(B85Gunzip(s))
         ELSE DecodeRaised("ValueError: bad base85 character")
    ELSE json_loads(s)

\* the end of _note_content_to_anno: `if note_content is None: return None`,
\* `return Annotation(**note_content)`
annotation_of(loaded) ==
    IF loaded.raised # "" THEN loaded
    ELSE IF ~loaded.ok THEN DecodedNone
    ELSE IF ~ValidAnnotationObj(loaded.anno) THEN DecodeRaised("ValidationError")
    ELSE Decoded(Annotation_from_obj(loaded.anno))

\* a data area whose first line turns every name into None
decode_data_area_lenient(data_area, nl) == DecodedNone

\* _note_content_to_anno from `serializer_name = ...` on: data_area is the
\* stripped text between the delimiters, nl the index of its first line
\* break (-1: none)
decode_data_area(data_area, nl) ==
    IF data_area = "" THEN DecodeRaised("IndexError")
    ELSE IF Strip(IF nl = -1 THEN data_area ELSE SubSeq(data_area, 1, nl)) = ""
    THEN DecodedNone
    ELSE IF Strip(IF nl = -1 THEN data_area ELSE SubSeq(data_area, 1, nl))
            \notin SerializerNames
    THEN DecodeRaised("ValueError: Serializer not found")
    ELSE annotation_of(
            deserialize_outcome(
                Strip(IF nl = -1 THEN data_area ELSE SubSeq(data_area, 1, nl)),
                IF nl = -1 THEN "" ELSE SubSeq(data_area, nl + 2, Len(data_area))))

decode_stripped(data_area) == decode_data_area(data_area, Find(data_area, "\n"))

\* _note_content_to_anno: [ok, anno, raised]; ok when it returns an
\* annotation; otherwise it returns None (raised = "") or raises
note_content_to_anno(note_content) ==
    IF Find(note_content, ANNOTATION_CONTENT_BEGIN) = -1
       \/ Find(note_content, ANNOTATION_CONTENT_END) = -1
    THEN DecodedNone
    ELSE decode_stripped(
            Strip(SubSeq(note_content,
                         Find(note_content, ANNOTATION_CONTENT_BEGIN)
                            + Len(ANNOTATION_CONTENT_BEGIN) + 1,
                         Find(note_content, ANNOTATION_CONTENT_END))))

\* the db_id values a client sends
NoteDbIds == {Null} \cup {Some(i) : i \in 1..MaxNoteId}

\* the note contents that _anno_to_note_content gives for the model's
\* annotations, and what _note_content_to_anno makes of each.  The notes of
\* the model all have such contents; their decoding is computed once.
EncodedNoteContents ==
    {anno_to_note_content(ser, WithDbId(a, id)).content :
        ser \in SerializerNames, id \in NoteDbIds,
        a \in {k \in AnnoInputs \cup {Thread[i] : i \in 1..Len(Thread)} :
                    anno_to_note_content(Base85GzipJSONSerializer_NAME, k).ok}}

\* a note with the two delimiters around a data area
Delimited(header, data_area) ==
    header \o "\n" \o ANNOTATION_CONTENT_BEGIN \o data_area
    \o ANNOTATION_CONTENT_END

\* notes that users wrote by hand, and notes that hold the delimiters
\* around something else than a serialized annotation
HumanNotes ==
    {"remember to pay",
     "draft\n" \o ANNOTATION_CONTENT_BEGIN \o "\n85gj\n{}\n",
     "85gj\n{}\n" \o ANNOTATION_CONTENT_END}
UnknownSerializerNotes ==
    {Delimited("v0", "\nzz9\n{}\n"), Delimited("", "\nJI2\n{}\n")}
NoSerializerNameNotes ==
    {Delimited("empty", ""), Delimited("blank", "\n \n"),
     ANNOTATION_CONTENT_END \o " " \o ANNOTATION_CONTENT_BEGIN}
BrokenPayloadNotes ==
    {Delimited("cut", "\nji2\nnot json\n"),
     Delimited("none", "\nji2\nnull\n"),
     Delimited("bare", "\nji2\n{}\n"),
     Delimited("cut", "\n85gj\na b\n")}

OtherNoteContents ==
    HumanNotes \cup UnknownSerializerNotes \cup NoSerializerNameNotes
    \cup BrokenPayloadNotes

KnownNoteContents == EncodedNoteContents \cup OtherNoteContents

RECURSIVE TableOf(_)
TableOf(contents) ==
    IF contents = {} THEN <<>>
    ELSE LET c == CHOOSE c \in contents : TRUE
         IN  (c :> note_content_to_anno(c)) @@ TableOf(contents \ {c})

DecodedNoteContents == TableOf(KnownNoteContents)

note_content_to_anno_once(note_content) == DecodedNoteContents[note_content]

\* a page test that lets every annotation pass
PageMatches_any(a, page) == TRUE

\* page is None or annotation.pageIndex == page
PageMatches(a, page) == IsNull(page) \/ a.pageIndex = Val(page)

\* PaperlessNotesStorage.get_annotations over the notes of the document
RECURSIVE notes_get_annotations(_, _, _)
notes_get_annotations(ns, page, i) ==
    IF i > Len(ns) THEN <<>>
    ELSE LET dec == note_content_to_anno_once(ns[i].note)
             annotation == [dec.anno EXCEPT !.db_id = Some(ns[i].id)]
         IN  (IF dec.ok /\ PageMatches(annotation, page) THEN <<annotation>>
              ELSE <<>>)
             \o notes_get_annotations(ns, page, i + 1)

\* `if page:`
Truthy(page) == ~IsNull(page) /\ Val(page) # 0

\* the rows DatabaseAnnotationStorage.get_annotations iterates over
db_query(rs, doc_id, page) ==
    IF Truthy(page)
    THEN SelectSeq(rs, LAMBDA r : r.doc_id = doc_id /\ r.page_index = Val(page))
    ELSE SelectSeq(rs, LAMBDA r : r.doc_id = doc_id)

\* Annotation(**db_anno.anno_obj) raises ValidationError for a row of the
\* query, and nothing catches it
db_get_annotations_raises(rs, doc_id, page) ==
    LET query == db_query(rs, doc_id, page)
    IN  \E i \in 1..Len(query) : ~ValidAnnotationObj(query[i].anno_obj)

\* a get_annotations that leaves the db_id as it was serialized
db_get_annotations_stored_db_id(rs, doc_id, page) ==
    LET query == SelectSeq(rs, LAMBDA r : r.doc_id = doc_id)
        annos == [i \in 1..Len(query) |-> Annotation_from_obj(query[i].anno_obj)]
    IN  SelectSeq(annos, LAMBDA anno : PageMatches(anno, page))

\* DatabaseAnnotationStorage.get_annotations
db_get_annotations(rs, doc_id, page) ==
    LET query == IF Truthy(page)
                 THEN SelectSeq(rs, LAMBDA r : r.doc_id = doc_id
                                               /\ r.page_index = Val(page))
                 ELSE SelectSeq(rs, LAMBDA r : r.doc_id = doc_id)
        annos == [i \in 1..Len(query) |->
                    [Annotation_from_obj(query[i].anno_obj)
                        EXCEPT !.db_id = Some(query[i].id)]]
    IN  SelectSeq(annos, LAMBDA anno : PageMatches(anno, page))

\* get_annotations of the configured backend, on given stores
get_annotations(storage, ns, rs, doc_id, page) ==
    IF storage = "paperless_notes"
    THEN notes_get_annotations(ns[doc_id], page, 1)
    ELSE db_get_annotations(rs, doc_id, page)

\* the page values a client asks for: none, or a page of the document
Pages == {Null} \cup {Some(p) : p \in 0..MaxPage}

\* GET /documents/{doc_id}/annotations?page=: list(get_annotations(doc_id,
\* page)); resp is the service's answer to the request for the notes
get_annotations_raises(resp, doc_id, page) ==
    IF resp = "error" THEN "PaperlessAPIError"
    ELSE IF anno_storage = "database" /\ db_get_annotations_raises(rows, doc_id, page)
    THEN "ValidationError"
    ELSE ""

GetAnnotationsDone(doc_id, page, raised) ==
    last' = [Call("get", doc_id, NoAnno, Null,
                  IF raised # "" THEN raised ELSE "ok", Null, Null, <<>>)
             EXCEPT !.page = page,
                    !.ret_annos = IF raised # "" THEN <<>>
                                  ELSE get_annotations(anno_storage, notes,
                                                       rows, doc_id, page)]

GetAnnotations(doc_id, page, resp) ==
    /\ Idle
    /\ resp = "error" => anno_storage = "paperless_notes"
    /\ GetAnnotationsDone(doc_id, page, get_annotations_raises(resp, doc_id, page))
    /\ UNCHANGED <<linkVars, loopVars, taskVars, anno_storage, anno_serializer, notes,
                   nextNoteId, rows, nextRowId>>

-----------------------------------------------------------------------------
(* Specification of the storage backends *)

StorageNames == {"paperless_notes", "database"}

RowDbIds == {Null} \cup {Some(i) : i \in 1..MaxRowId}

StoreInit ==
    /\ anno_storage \in StorageNames
    /\ anno_serializer \in SerializerNames
    /\ notes = [d \in Docs |-> <<>>]
    /\ nextNoteId = 1
    /\ rows = <<>>
    /\ nextRowId = 1
    /\ last = NoCall

StoreNext ==
    \/ \E d \in Docs, a \in AnnoInputs, r \in Responses : NotesCreate(d, a, r)
    \/ \E d \in Docs, a \in AnnoInputs, id \in NoteDbIds, r1, r2 \in Responses :
          NotesUpdate(d, WithDbId(a, id), r1, r2)
    \/ \E d \in Docs, id \in 1..MaxNoteId, r \in Responses : NotesDelete(d, id, r)
    \/ \E d \in Docs, a \in AnnoInputs : DbCreate(d, a)
    \/ \E d \in Docs, a \in AnnoInputs, id \in RowDbIds : DbUpdate(d, WithDbId(a, id))
    \/ \E d \in Docs, id \in 1..MaxRowId : DbDelete(d, id)
    \/ \E d \in Docs, page \in Pages, r \in Responses : GetAnnotations(d, page, r)
    \/ Return

-----------------------------------------------------------------------------
(* The document service's documents and custom fields, as PaperlessAPI       *)
(* reaches them                                                            *)

CUSTOM_FIELD_NAME == "Annotations"
BASE_URL == "http://pla"
OTHER_FIELD_NAME == "Invoice"

\* django.urls.reverse("view_document", kwargs={"doc_id": doc_id}) for the
\* route path("view/<doc_id>", ...)
reverse_view_document(doc_id) == "/view/" \o ToString(doc_id)

\* Python: s.startswith(prefix); the lookup istartswith on the model's
\* lower-case values
StartsWith(str, prefix) ==
    Len(str) >= Len(prefix) /\ SubSeq(str, 1, Len(prefix)) = prefix

link_is_outdated_query ==
    <<"NOT", <<CUSTOM_FIELD_NAME, "istartswith", BASE_URL \o "/view/">> >>
link_not_exists_query == <<CUSTOM_FIELD_NAME, "exists", FALSE>>
cf_query == <<CUSTOM_FIELD_NAME, "exists", TRUE>>

\* the id the service knows the named field by (0: no such field)
FieldIdOf(fields, name) ==
    LET hits == {i \in 1..Len(fields) : fields[i].name = name}
    IN  IF hits = {} THEN 0 ELSE fields[CHOOSE i \in hits : TRUE].id

\* the service's evaluation of a custom_field_query on one document's
\* instances: an atom holds when an instance of the field satisfies it, NOT
\* negates
RECURSIVE QueryHolds(_, _, _)
QueryHolds(q, fields, instances) ==
    IF Len(q) = 2
    THEN ~QueryHolds(q[2], fields, instances)
    ELSE LET of_field == {i \in 1..Len(instances) :
                            instances[i].field = FieldIdOf(fields, q[1])}
         IN  IF q[2] = "exists"
             THEN (of_field # {}) = q[3]
             ELSE \E i \in of_field : StartsWith(instances[i].value, q[3])

\* the ids in ascending order
RECURSIVE SortedIds(_)
SortedIds(ids) ==
    IF ids = {} THEN <<>>
    ELSE LET m == CHOOSE x \in ids : \A y \in ids : x <= y
         IN  <<m>> \o SortedIds(ids \ {m})

\* one page of a list the service paginates: the page is a 404 when it lies
\* behind the last page; next is set when items follow
PageOf(items, page) ==
    LET from == (page - 1) * PageSize + 1
        to == IF page * PageSize < Len(items) THEN page * PageSize ELSE Len(items)
    IN  [ok |-> page = 1 \/ from <= Len(items),
         results |-> SubSeq(items, from, to),
         next |-> page * PageSize < Len(items)]

\* the documents a query matches, as the service's index shows them: a
\* document of env.stale is still shown as it was when the call began
IndexView(ctx, env) ==
    [d \in LinkDocs |-> IF d \in env.stale THEN env.pre[d] ELSE ctx.docs[d]]

MatchingDocs(q, fields, view) ==
    LET ids == SortedIds({d \in LinkDocs : QueryHolds(q, fields, view[d])})
    IN  [i \in 1..Len(ids) |-> [id |-> ids[i], custom_fields |-> view[ids[i]]]]

\* PaperlessAPI._request: the request is sent; it fails (PaperlessAPIError)
\* when it is the env.faultAt-th of the call
Send(ctx, env) ==
    [ctx EXCEPT !.req = @ + 1, !.err = (ctx.req + 1 = env.faultAt)]

-----------------------------------------------------------------------------
(* PaperlessAPI: custom fields on documents *)

\* an add_custom_field_to_document that appends without searching
add_custom_field_to_document_always_append(doc_cf_instances, custom_field_id, value) ==
    Append(doc_cf_instances, [field |-> custom_field_id, value |-> value])

\* an add_custom_field_to_document that sends the link instance alone
add_custom_field_to_document_alone(doc_cf_instances, custom_field_id, value) ==
    <<[field |-> custom_field_id, value |-> value]>>

\* add_custom_field_to_document: the instance array sent in the PATCH
add_custom_field_to_document(doc_cf_instances, custom_field_id, value) ==
    LET hits == {i \in 1..Len(doc_cf_instances) :
                    doc_cf_instances[i].field = custom_field_id}
    IN  IF hits # {}
        THEN [doc_cf_instances EXCEPT
                ![CHOOSE i \in hits : \A j \in hits : i <= j].value = value]
        ELSE Append(doc_cf_instances,
                    [field |-> custom_field_id, value |-> value])

\* delete_custom_field_from_document: the filtered instance array
delete_custom_field_from_document(doc_cf_instances, custom_field_id) ==
    SelectSeq(doc_cf_instances, LAMBDA inst : ~(inst.field = custom_field_id))

\* get_custom_field_by_name over custom_fields_iter: page after page until
\* the first field of that name
RECURSIVE get_custom_field_by_name(_, _, _, _)
get_custom_field_by_name(ctx, env, fields, page) ==
    LET c1 == Send(ctx, env)
        pg == PageOf(fields, page)
        hits == {i \in 1..Len(pg.results) : pg.results[i].name = CUSTOM_FIELD_NAME}
    IN  IF c1.err \/ ~pg.ok THEN [ctx |-> [c1 EXCEPT !.err = TRUE], cf |-> Null]
        ELSE IF hits # {}
        THEN [ctx |-> c1,
              cf |-> Some(pg.results[CHOOSE i \in hits : \A j \in hits : i <= j].id)]
        ELSE IF pg.next THEN get_custom_field_by_name(c1, env, fields, page + 1)
        ELSE [ctx |-> c1, cf |-> Null]

-----------------------------------------------------------------------------
(* auto_linking *)

\* the value written for a missing link, and for an outdated one
missing_link_value(doc_id) == BASE_URL \o reverse_view_document(doc_id)
outdated_link_value(doc_id) == BASE_URL \o "/" \o reverse_view_document(doc_id)

\* a _get_or_create_custom_link_field that does not consult the cache
get_or_create_custom_link_field_uncached(ctx, env, cache, fields) ==
    LET look == get_custom_field_by_name(ctx, env, fields, 1)
    IN  IF look.ctx.err
        THEN [ctx |-> look.ctx, cf |-> Null, cache |-> cache, fields |-> fields,
              lookups |-> 1, creates |-> 0, created |-> 0]
        ELSE [ctx |-> look.ctx, cf |-> look.cf, cache |-> look.cf,
              fields |-> fields, lookups |-> 1, creates |-> 0, created |-> 0]

\* _get_or_create_custom_link_field: the field (its id), the cache and the
\* service's fields afterwards, and the lookups and creations made
get_or_create_custom_link_field(ctx, env, cache, fields) ==
    LET look == get_custom_field_by_name(ctx, env, fields, 1)
        c2 == Send(look.ctx, env)
        created == [id |-> Len(fields) + 1, name |-> CUSTOM_FIELD_NAME]
    IN  IF ~IsNull(cache)
        THEN [ctx |-> ctx, cf |-> cache, cache |-> cache, fields |-> fields,
              lookups |-> 0, creates |-> 0, created |-> 0]
        ELSE IF look.ctx.err
        THEN [ctx |-> look.ctx, cf |-> Null, cache |-> cache, fields |-> fields,
              lookups |-> 1, creates |-> 0, created |-> 0]
        ELSE IF ~IsNull(look.cf)
        THEN [ctx |-> look.ctx, cf |-> look.cf, cache |-> look.cf,
              fields |-> fields, lookups |-> 1, creates |-> 0, created |-> 0]
        ELSE IF c2.err
        THEN [ctx |-> c2, cf |-> Null, cache |-> cache, fields |-> fields,
              lookups |-> 1, creates |-> 1, created |-> 0]
        ELSE [ctx |-> c2, cf |-> Some(created.id), cache |-> Some(created.id),
              fields |-> Append(fields, created),
              lookups |-> 1, creates |-> 1, created |-> 1]

\* the body of the loop over the documents of one query:
\*   "missing", "outdated": update_document_links' two loops
\*   "delete": delete_all_document_links' loop
\*   "read": a consumer that only takes the documents
LoopBody(ctx, env, mode, doc) ==
    LET c1 == Send(ctx, env)
        value == IF mode = "missing" THEN missing_link_value(doc.id)
                 ELSE outdated_link_value(doc.id)
        filtered == delete_custom_field_from_document(doc.custom_fields, env.cf)
    IN  IF mode = "read" THEN ctx
        ELSE IF mode = "delete"
        THEN IF Len(filtered) = Len(doc.custom_fields)
             THEN [ctx EXCEPT !.updated = Append(@, doc.id)]
             ELSE IF c1.err THEN c1
             ELSE [c1 EXCEPT !.docs[doc.id] = filtered,
                             !.updated = Append(@, doc.id),
                             !.writes = Append(@, [doc |-> doc.id, mode |-> mode,
                                                   value |-> ""])]
        ELSE IF doc.id \in env.skip THEN ctx
        ELSE IF c1.err THEN c1
        ELSE [c1 EXCEPT !.docs[doc.id] =
                            add_custom_field_to_document(doc.custom_fields,
                                                         env.cf, value),
                        !.updated = Append(@, doc.id),
                        !.writes = Append(@, [doc |-> doc.id, mode |-> mode,
                                              value |-> value])]

\* what the iterator does, in order: a page it requests, a document it
\* yields
PageRequested(ctx, page) ==
    [ctx EXCEPT !.trace = Append(@, [kind |-> "page", n |-> page])]
Yielded(ctx, doc) ==
    [ctx EXCEPT !.trace = Append(@, [kind |-> "doc", n |-> doc.id])]

RECURSIVE LoopOverPage(_, _, _, _, _)
LoopOverPage(ctx, env, mode, results, i) ==
    IF ctx.err \/ i > Len(results) THEN ctx
    ELSE LoopOverPage(LoopBody(Yielded(ctx, results[i]), env, mode, results[i]),
                      env, mode, results, i + 1)

\* an iterator that never asks for a second page
documents_custom_field_query_iter_first_page(ctx, env, mode, q, page) ==
    LET c1 == PageRequested(Send(ctx, env), page)
        payload == PageOf(MatchingDocs(q, env.fields, IndexView(c1, env)), page)
    IN  IF c1.err \/ ~payload.ok THEN [c1 EXCEPT !.err = TRUE]
        ELSE LoopOverPage(c1, env, mode, payload.results, 1)

\* a for loop over documents_custom_field_query_iter(q): a page is requested,
\* its documents are handed to the loop body one by one, and the next page is
\* requested when the page named one
RECURSIVE documents_custom_field_query_iter(_, _, _, _, _)
documents_custom_field_query_iter(ctx, env, mode, q, page) ==
    LET c1 == PageRequested(Send(ctx, env), page)
        payload == PageOf(MatchingDocs(q, env.fields, IndexView(c1, env)), page)
        c2 == LoopOverPage(c1, env, mode, payload.results, 1)
    IN  IF c1.err \/ ~payload.ok THEN [c1 EXCEPT !.err = TRUE]
        ELSE IF c2.err \/ ~payload.next THEN c2
        ELSE documents_custom_field_query_iter(c2, env, mode, q, page + 1)


\* update_document_links(ppl, docs_to_skip): the documents afterwards (ctx),
\* the field resolution (got) and whether the call raised
update_document_links(ctx, env0, cache, fields) ==
    LET got == get_or_create_custom_link_field(ctx, env0, cache, fields)
        env == [env0 EXCEPT !.cf = IF IsNull(got.cf) THEN 0 ELSE Val(got.cf),
                            !.fields = got.fields]
        missing == documents_custom_field_query_iter(
                        got.ctx, env, "missing", link_not_exists_query, 1)
        outdated == documents_custom_field_query_iter(
                        missing, env, "outdated", link_is_outdated_query, 1)
    IN  [got |-> got,
         ctx |-> IF got.ctx.err THEN got.ctx
                 ELSE IF missing.err THEN missing ELSE outdated]

\* delete_all_document_links(ppl)
delete_all_document_links(ctx, env0, cache, fields) ==
    LET got == get_or_create_custom_link_field(ctx, env0, cache, fields)
        env == [env0 EXCEPT !.cf = IF IsNull(got.cf) THEN 0 ELSE Val(got.cf),
                            !.fields = got.fields]
    IN  [got |-> got,
         ctx |-> IF got.ctx.err THEN got.ctx
                 ELSE documents_custom_field_query_iter(
                        got.ctx, env, "delete", cf_query, 1)]

-----------------------------------------------------------------------------
(* The link call that has just returned *)

NoLinkCall ==
    [op |-> "none", result |-> "none", skip |-> {}, stale |-> {},
     injected |-> FALSE, updated |-> <<>>, writes |-> <<>>, removed_links |-> 0,
     lookups |-> 0, creates |-> 0, cf |-> Null,
     pre_docs |-> [d \in LinkDocs |-> <<>>], pre_cache |-> Null,
     pre_fields |-> <<>>, after_clean_update |-> FALSE,
     query |-> <<>>, trace |-> <<>>]

LinkIdle == lastLink.op = "none"

\* the process state and the history after a link call with outcome out
LinkCallDone(op, out, docs_to_skip, stale, faultAt) ==
    LET injected == faultAt # 0 /\ faultAt <= out.ctx.req
    IN  /\ create_calls + out.got.creates <= MaxCreateCalls
        /\ docs' = out.ctx.docs
        /\ custom_fields' = out.got.fields
        /\ custom_field_cache' = out.got.cache
        /\ create_calls' = create_calls + out.got.creates
        /\ create_done' = create_done + out.got.created
        /\ field_at_first_call' =
              IF field_at_first_call # "none" THEN field_at_first_call
              ELSE IF FieldIdOf(custom_fields, CUSTOM_FIELD_NAME) # 0
                   THEN "present" ELSE "absent"
        /\ lastLink' =
              [op |-> op,
               result |-> IF out.ctx.err THEN "PaperlessAPIError" ELSE "ok",
               skip |-> docs_to_skip, stale |-> stale, injected |-> injected,
               updated |-> out.ctx.updated, writes |-> out.ctx.writes,
               removed_links |-> IF op = "delete_all"
                                 THEN Len(out.ctx.updated) ELSE 0,
               lookups |-> out.got.lookups, creates |-> out.got.creates,
               cf |-> out.got.cf,
               pre_docs |-> docs, pre_cache |-> custom_field_cache,
               pre_fields |-> custom_fields,
               after_clean_update |-> prevLink,
               query |-> <<>>, trace |-> out.ctx.trace]
        /\ prevLink' = (op = "update" /\ docs_to_skip = {} /\ stale = {}
                        /\ ~injected)
        /\ UNCHANGED storeVars

LinkCtx == [docs |-> docs, req |-> 0, err |-> FALSE, updated |-> <<>>,
            writes |-> <<>>, trace |-> <<>>]

LinkEnv(docs_to_skip, stale, faultAt) ==
    [faultAt |-> faultAt, stale |-> stale, pre |-> docs, skip |-> docs_to_skip,
     cf |-> 0, fields |-> custom_fields]

\* a call of update_document_links; stale: the documents the service's index
\* lags behind on during the call; faultAt: the request that fails (0: none)
UpdateDocumentLinks(docs_to_skip, stale, faultAt) ==
    /\ LinkIdle
    /\ LinkCallDone("update",
                    update_document_links(LinkCtx,
                                          LinkEnv(docs_to_skip, stale, faultAt),
                                          custom_field_cache, custom_fields),
                    docs_to_skip, stale, faultAt)
    /\ UNCHANGED <<loopVars, taskVars>>

\* a call of delete_all_document_links
DeleteAllDocumentLinks(stale, faultAt) ==
    /\ LinkIdle
    /\ LinkCallDone("delete_all",
                    delete_all_document_links(LinkCtx,
                                              LinkEnv({}, stale, faultAt),
                                              custom_field_cache, custom_fields),
                    {}, stale, faultAt)
    /\ UNCHANGED <<loopVars, taskVars>>

\* the queries the module sends
Queries == {link_not_exists_query, link_is_outdated_query, cf_query}

IterateDocumentsDone(q, out) ==
    /\ lastLink' = [NoLinkCall EXCEPT
                        !.op = "iterate",
                        !.result = IF out.err THEN "PaperlessAPIError" ELSE "ok",
                        !.pre_docs = docs, !.pre_fields = custom_fields,
                        !.query = q, !.trace = out.trace]
    /\ prevLink' = FALSE
    /\ UNCHANGED <<storeVars, loopVars, taskVars, custom_fields, docs, custom_field_cache,
                   create_calls, create_done, field_at_first_call>>

\* list(ppl.documents_custom_field_query_iter(q)): the iterator is run to
\* its end by a consumer that changes nothing
IterateDocuments(q, faultAt) ==
    /\ LinkIdle
    /\ IterateDocumentsDone(q,
            documents_custom_field_query_iter(LinkCtx, LinkEnv({}, {}, faultAt),
                                              "read", q, 1))

\* the caller takes the result
LinkReturn ==
    /\ ~LinkIdle
    /\ lastLink' = NoLinkCall
    /\ UNCHANGED <<storeVars, loopVars, taskVars, custom_fields, docs, custom_field_cache,
                   create_calls, create_done, field_at_first_call, prevLink>>

-----------------------------------------------------------------------------
(* Specifications *)

OtherField == [id |-> 1, name |-> OTHER_FIELD_NAME]
LinkField == [id |-> 2, name |-> CUSTOM_FIELD_NAME]

\* the instance lists a document can start with: no link, the link as
\* update_document_links writes it, or a link to another place; document 1
\* may carry an instance of another field in front
InitialInstances(d, link_defined) ==
    LET links == {<<>>} \cup
                 (IF link_defined
                  THEN {<<[field |-> LinkField.id, value |-> missing_link_value(d)]>>,
                        <<[field |-> LinkField.id,
                           value |-> "http://old" \o reverse_view_document(d)]>>}
                  ELSE {})
    IN  links \cup (IF d = 1
                    THEN {<<[field |-> OtherField.id, value |-> "7"]>> \o l :
                            l \in links}
                    ELSE {})

LinkInit ==
    /\ custom_fields \in {<<OtherField>>, <<OtherField, LinkField>>}
    /\ docs \in [LinkDocs -> UNION {InitialInstances(d, TRUE) : d \in LinkDocs}]
    /\ \A d \in LinkDocs :
          docs[d] \in InitialInstances(d, Len(custom_fields) = 2)
    /\ custom_field_cache = Null
    /\ create_calls = 0
    /\ create_done = 0
    /\ field_at_first_call = "none"
    /\ lastLink = NoLinkCall
    /\ prevLink = FALSE

\* the storage backends alone: no link call is made
LinkQuiet ==
    /\ custom_fields = <<OtherField>>
    /\ docs = [d \in LinkDocs |-> <<>>]
    /\ custom_field_cache = Null
    /\ create_calls = 0
    /\ create_done = 0
    /\ field_at_first_call = "none"
    /\ lastLink = NoLinkCall
    /\ prevLink = FALSE

\* the link synchronisation alone: no storage call is made
StoreQuiet ==
    /\ anno_storage = "paperless_notes"
    /\ anno_serializer = Base85GzipJSONSerializer_NAME
    /\ notes = [d \in Docs |-> <<>>]
    /\ nextNoteId = 1
    /\ rows = <<>>
    /\ nextRowId = 1
    /\ last = NoCall

\* auto_update_links_loop has not been started
LoopQuiet ==
    /\ loop_pc = "off"
    /\ loop_user = 0
    /\ updated_docs = <<>>
    /\ loop_written = {}
    /\ loop_after_failure = FALSE

Workers == 1..NumWorkers

TaskQuiet ==
    /\ enable_auto_update_links = FALSE
    /\ task_queue = <<>>
    /\ task_pc = [w \in Workers |-> "idle"]
    /\ task_cf = [w \in Workers |-> Null]
    /\ task_absent = [w \in Workers |-> FALSE]
    /\ task_created = [w \in Workers |-> Null]

Init == StoreInit /\ LinkQuiet /\ LoopQuiet /\ TaskQuiet

Next == StoreNext

Spec == Init /\ [][Next]_vars

FaultPoints == 0..MaxFaultAt

LinkNext ==
    \/ \E skip \in SUBSET LinkDocs, stale \in SUBSET LinkDocs, f \in FaultPoints :
          UpdateDocumentLinks(skip, stale, f)
    \/ \E stale \in SUBSET LinkDocs, f \in FaultPoints :
          DeleteAllDocumentLinks(stale, f)
    \/ \E q \in Queries, f \in FaultPoints : IterateDocuments(q, f)
    \/ LinkReturn

InitLinks == StoreQuiet /\ LinkInit /\ LoopQuiet /\ TaskQuiet

SpecLinks == InitLinks /\ [][LinkNext]_vars

-----------------------------------------------------------------------------
(* auto_update_links_loop *)

\* User.objects.exclude(paperless_api_token="")
Users == 1..NumUsers

\* the elements of a list
Range(seq) == {seq[i] : i \in 1..Len(seq)}

\* an except clause that lets everything but PaperlessAPIError pass
except_PaperlessAPIError(e) ==
    IF e = "PaperlessAPIError" THEN "caught" ELSE "raised"

\* `except Exception as e`: where an exception of class e, raised inside the
\* try block, takes the loop
except_Exception(e) == "caught"

\* a loop that hands no skip list to update_document_links
docs_to_skip_none(updated) == {}

\* docs_to_skip=updated_docs
docs_to_skip_of(updated) == Range(updated)

\* while True: try: updated_docs = []
LoopBeginCycle ==
    /\ loop_pc = "top"
    /\ loop_pc' = "scan"
    /\ loop_user' = 0
    /\ updated_docs' = <<>>
    /\ loop_written' = {}
    /\ UNCHANGED <<storeVars, linkVars, taskVars, loop_after_failure>>

\* for user in User.objects.exclude(paperless_api_token=""): the query
LoopQueryUsers(resp) ==
    /\ loop_pc = "scan" /\ loop_user = 0
    /\ IF resp = "ok"
       THEN loop_user' = 1 /\ UNCHANGED loop_pc
       ELSE loop_pc' = except_Exception("DatabaseError") /\ UNCHANGED loop_user
    /\ UNCHANGED <<storeVars, linkVars, taskVars, updated_docs, loop_written,
                   loop_after_failure>>

\* updated_docs += update_document_links(ppl, docs_to_skip=updated_docs)
LoopUpdateUser(stale, faultAt) ==
    /\ loop_pc = "scan" /\ loop_user \in Users
    /\ LET skip == docs_to_skip_of(updated_docs)
           out == update_document_links(LinkCtx, LinkEnv(skip, stale, faultAt),
                                        custom_field_cache, custom_fields)
       IN  /\ LinkCallDone("update", out, skip, stale, faultAt)
           /\ loop_written' = loop_written \cup
                  {<<loop_user, out.ctx.writes[i].doc>> :
                        i \in 1..Len(out.ctx.writes)}
           /\ IF out.ctx.err
              THEN /\ loop_pc' = except_Exception("PaperlessAPIError")
                   /\ UNCHANGED <<loop_user, updated_docs>>
              ELSE /\ updated_docs' = updated_docs \o out.ctx.updated
                   /\ loop_user' = loop_user + 1
                   /\ UNCHANGED loop_pc
    /\ UNCHANGED <<taskVars, loop_after_failure>>

\* the for loop is through: logger.info("... scan completed")
LoopScanCompleted ==
    /\ loop_pc = "scan" /\ loop_user = NumUsers + 1
    /\ loop_pc' = "sleep"
    /\ loop_after_failure' = FALSE
    /\ UNCHANGED <<storeVars, linkVars, taskVars, loop_user, updated_docs, loop_written>>

\* except Exception as e: logger.exception(...)
LoopLogException ==
    /\ loop_pc = "caught"
    /\ loop_pc' = "sleep"
    /\ loop_after_failure' = TRUE
    /\ UNCHANGED <<storeVars, linkVars, taskVars, loop_user, updated_docs, loop_written>>

\* time.sleep(scan_interval_seconds)
LoopSleep ==
    /\ loop_pc = "sleep"
    /\ loop_pc' = "top"
    /\ UNCHANGED <<storeVars, linkVars, taskVars, loop_user, updated_docs, loop_written,
                   loop_after_failure>>

\* the instances of the field that LinkField is
LinkInstances0(instances) ==
    SelectSeq(instances, LAMBDA inst : inst.field = LinkField.id)

\* task_auto_update_links has called auto_update_links_loop
LoopInit ==
    /\ loop_pc = "top"
    /\ loop_user = 0
    /\ updated_docs = <<>>
    /\ loop_written = {}
    /\ loop_after_failure = FALSE

\* the loop is followed from the corpora in which document 3 has no link yet
\* and no document carries another field
InitLoop ==
    /\ StoreQuiet /\ LinkInit /\ LoopInit /\ TaskQuiet
    /\ docs[3] = <<>>
    /\ \A d \in LinkDocs : Len(docs[d]) <= 1 /\ LinkInstances0(docs[d]) = docs[d]

\* during the loop the index is up to date or lags behind on every document
LoopStale == {{}, LinkDocs}

LoopNext ==
    \/ LoopBeginCycle
    \/ \E resp \in Responses : LoopQueryUsers(resp)
    \/ \E stale \in LoopStale, f \in FaultPoints : LoopUpdateUser(stale, f)
    \/ LoopScanCompleted
    \/ LoopLogException
    \/ LoopSleep

\* the worker that runs the task keeps running: the handler returns, the
\* sleep ends and the while loop goes round
LoopFairness ==
    /\ WF_vars(LoopLogException)
    /\ WF_vars(LoopSleep)
    /\ WF_vars(LoopBeginCycle)

SpecLoop == InitLoop /\ [][LoopNext]_vars /\ LoopFairness

-----------------------------------------------------------------------------
(* PaperlessAnnotator *)

\* the stores a call works on, the DELETE requests it has sent, the one of
\* them that fails (0: none), whether the call has raised, and the value the
\* last delete_annotation_by_id returned
Stores(failAt) ==
    [notes |-> notes, rows |-> rows, deletes |-> 0, failAt |-> failAt,
     err |-> FALSE, ret |-> FALSE, processed |-> {}, at_doc |-> 0]

StoredAnnotations(st, doc_id, page) ==
    get_annotations(anno_storage, st.notes, st.rows, doc_id, page)

\* annotation_storage.delete_annotation_by_id(doc_id, db_id)
delete_annotation_by_id(st, doc_id, db_id) ==
    IF anno_storage = "paperless_notes"
    THEN IF st.deletes + 1 = st.failAt
         THEN [st EXCEPT !.deletes = @ + 1, !.err = TRUE, !.at_doc = doc_id]
         ELSE [st EXCEPT !.deletes = @ + 1,
                         !.notes[doc_id] = RemoveNote(@, db_id),
                         !.ret = notes_delete_annotation_by_id_returns(
                                    st.notes[doc_id], db_id)]
    ELSE [st EXCEPT !.rows = SelectSeq(@, LAMBDA r :
                                ~(r.id = db_id /\ r.doc_id = doc_id)),
                    !.ret = objects_get(st.rows, Some(db_id), doc_id) # {}]

\* processed_docs.add(doc.id), reached when the delete has not raised
processed_docs_add(d, doc_id) ==
    IF d.err THEN d ELSE [d EXCEPT !.processed = @ \cup {doc_id}]

\* a loop that deletes the annotations annos of the document one by one
RECURSIVE delete_each(_, _, _, _)
delete_each(st, doc_id, annos, i) ==
    IF st.err \/ i > Len(annos) THEN st
    ELSE delete_each(
            processed_docs_add(
                delete_annotation_by_id(st, doc_id, Val(annos[i].db_id)), doc_id),
            doc_id, annos, i + 1)

\* a delete_anno that looks for replies on every page
reply_candidates_on_all_pages(st, doc_id, annotation) ==
    StoredAnnotations(st, doc_id, Null)

\* get_annotations(doc_id, annotation.pageIndex)
reply_candidates(st, doc_id, annotation) ==
    StoredAnnotations(st, doc_id, Some(annotation.pageIndex))

\* an is_reply that also takes the replies to replies
is_reply_or_nested(other_anno, annotation) ==
    /\ other_anno.db_id # annotation.db_id
    /\ ~IsNull(other_anno.inReplyToId)

\* an is_reply that takes every other annotation, whatever it replies to
is_reply_to_anything(other_anno, annotation) ==
    other_anno.db_id # annotation.db_id

\* is_reply; getattr(other_anno, "inReplyToId", None) is Null when unset
is_reply(other_anno, annotation) ==
    /\ other_anno.db_id # annotation.db_id
    /\ other_anno.inReplyToId = annotation.id

\* the last statement of delete_anno, on the stores st1 the loop over the
\* replies has left: delete_annotation_by_id(doc_id, annotation.db_id)
delete_anno_itself(st1, doc_id, annotation) ==
    IF st1.err THEN st1
    ELSE delete_annotation_by_id(st1, doc_id, Val(annotation.db_id))

\* PaperlessAnnotator.delete_anno
delete_anno(st, doc_id, annotation) ==
    delete_anno_itself(
        delete_each(st, doc_id,
                    SelectSeq(reply_candidates(st, doc_id, annotation),
                              LAMBDA other_anno : is_reply(other_anno, annotation)),
                    1),
        doc_id, annotation)

\* a skip test that skips nothing
never_skipped(doc_id, docs_to_skip) == FALSE

\* doc.id in docs_to_skip
is_skipped(doc_id, docs_to_skip) == doc_id \in docs_to_skip

\* delete_all_annotations over get_all_documents_with_annotations: the
\* documents in the order documents_iter gives them
\* one document of documents_iter: yielded by
\* get_all_documents_with_annotations when it is not skipped and has
\* annotations annos, and then every annotation of it is deleted
delete_annotations_of(st, doc_id, docs_to_skip, annos) ==
    IF ~is_skipped(doc_id, docs_to_skip) /\ annos # <<>>
    THEN delete_each(st, doc_id, annos, 1)
    ELSE st

RECURSIVE delete_all_annotations(_, _, _, _)
delete_all_annotations(st, documents, docs_to_skip, i) ==
    IF st.err \/ i > Len(documents) THEN st
    ELSE delete_all_annotations(
            delete_annotations_of(st, documents[i], docs_to_skip,
                                  StoredAnnotations(st, documents[i], Null)),
            documents, docs_to_skip, i + 1)

\* the requests of a call on the relational backend do not reach the
\* document service
FailPoints == IF anno_storage = "database" THEN {0} ELSE 0..MaxFaultAt

\* DELETE /documents/{doc_id}/annotations/{db_id} with the annotation the
\* client holds
DeleteAnnoDone(doc_id, annotation, out) ==
    /\ Idle
    /\ notes' = out.notes
    /\ rows' = out.rows
    /\ last' = [Call("delete_anno", doc_id, annotation, annotation.db_id,
                     IF out.err THEN "PaperlessAPIError" ELSE "ok",
                     Null, IF out.err THEN Null ELSE Some(out.ret), <<>>)
                EXCEPT !.docs_to_skip = {}]
    /\ UNCHANGED <<linkVars, loopVars, taskVars, anno_storage, anno_serializer,
                   nextNoteId, nextRowId>>

DeleteAnno(doc_id, annotation, failAt) ==
    DeleteAnnoDone(doc_id, annotation,
                   delete_anno(Stores(failAt), doc_id, annotation))

\* task_delete_annos_for_user / delete_all_annotations(docs_to_skip)
DeleteAllAnnotationsDone(docs_to_skip, failAt, out) ==
    /\ Idle
    /\ notes' = out.notes
    /\ rows' = out.rows
    /\ last' = [Call("delete_all_annotations", out.at_doc, NoAnno, Null,
                     IF out.err THEN "PaperlessAPIError" ELSE "ok",
                     Null, Null, <<>>)
                EXCEPT !.docs_to_skip = docs_to_skip,
                       !.ret_docs = IF out.err THEN {} ELSE out.processed,
                       !.writes = IF failAt = 0 THEN <<>>
                                  ELSE << <<"fail", failAt>> >>]
    /\ UNCHANGED <<linkVars, loopVars, taskVars, anno_storage, anno_serializer,
                   nextNoteId, nextRowId>>

DeleteAllAnnotations(docs_to_skip, failAt) ==
    DeleteAllAnnotationsDone(docs_to_skip, failAt,
        delete_all_annotations(Stores(failAt), SortedIds(Docs), docs_to_skip, 1))

\* the events of get_all_documents_with_annotations: an annotation taken
\* from get_annotations(doc.id), a document yielded
Took(doc_id) == <<"take", doc_id>>
YieldedDoc(doc_id) == <<"yield", doc_id>>

\* a probe that goes through all the annotations and yields at each
probe_without_break(doc_id, annos) ==
    [i \in 1..(2 * Len(annos)) |->
        IF i % 2 = 1 THEN Took(doc_id) ELSE YieldedDoc(doc_id)]

\* for _ in self.annotation_storage.get_annotations(doc.id): yield doc; break
probe(doc_id, annos) ==
    IF annos = <<>> THEN <<>> ELSE <<Took(doc_id), YieldedDoc(doc_id)>>

\* get_all_documents_with_annotations(docs_to_skip) run to its end, over the
\* documents in the order documents_iter gave them
RECURSIVE get_all_documents_with_annotations(_, _, _, _)
get_all_documents_with_annotations(st, documents, docs_to_skip, i) ==
    IF i > Len(documents) THEN <<>>
    ELSE (IF is_skipped(documents[i], docs_to_skip) THEN <<>>
          ELSE probe(documents[i], StoredAnnotations(st, documents[i], Null)))
         \o get_all_documents_with_annotations(st, documents, docs_to_skip, i + 1)

DocumentsWithAnnotationsDone(docs_to_skip, resp, events) ==
    /\ Idle
    /\ resp = "error" => anno_storage = "paperless_notes"
    /\ last' = [Call("documents_with_annotations", 0, NoAnno, Null,
                     IF resp = "error" THEN "PaperlessAPIError" ELSE "ok",
                     Null, Null, IF resp = "error" THEN <<>> ELSE events)
                EXCEPT !.docs_to_skip = docs_to_skip]
    /\ UNCHANGED <<linkVars, loopVars, taskVars, anno_storage, anno_serializer,
                   notes, nextNoteId, rows, nextRowId>>

\* list(annotator.get_all_documents_with_annotations(docs_to_skip)); resp:
\* the service's answer to the requests for the notes
DocumentsWithAnnotations(docs_to_skip, resp) ==
    DocumentsWithAnnotationsDone(docs_to_skip, resp,
        get_all_documents_with_annotations(Stores(0), SortedIds(Docs),
                                           docs_to_skip, 1))

-----------------------------------------------------------------------------
(* Specification of the annotator, on stores that hold annotations *)

\* the annotations of seq whose index is in keep, in order
Keep(seq, keep) ==
    LET F[i \in 0..Len(seq)] ==
            IF i = 0 THEN <<>>
            ELSE IF i \in keep THEN Append(F[i - 1], seq[i]) ELSE F[i - 1]
    IN  F[Len(seq)]

\* the stores after create_annotation(1, a) for the annotations of on1 and
\* then create_annotation(2, a) for those of on2
CreatedNotes(ser, on1, on2) ==
    [d \in Docs |->
        IF d = 1
        THEN [i \in 1..Len(on1) |->
                [id |-> i, note |-> anno_to_note_content(ser, on1[i]).content]]
        ELSE IF d = 2
        THEN [i \in 1..Len(on2) |->
                [id |-> Len(on1) + i,
                 note |-> anno_to_note_content(ser, on2[i]).content]]
        ELSE <<>>]

CreatedRows(on1, on2) ==
    [i \in 1..(Len(on1) + Len(on2)) |->
        LET a == IF i <= Len(on1) THEN on1[i] ELSE on2[i - Len(on1)]
        IN  [id |-> i, doc_id |-> IF i <= Len(on1) THEN 1 ELSE 2,
             db_id |-> db_id_or_0(a), page_index |-> a.pageIndex,
             anno_obj |-> model_dump(a)]]

AnnotatorInit ==
    /\ anno_storage \in StorageNames
    /\ anno_serializer \in SerializerNames
    /\ \E k1 \in SUBSET (1..Len(Thread)), k2 \in SUBSET (1..2) :
          LET on1 == Keep(Thread, k1)
              on2 == Keep(Thread, k2)
          IN  /\ notes = IF anno_storage = "paperless_notes"
                         THEN CreatedNotes(anno_serializer, on1, on2)
                         ELSE [d \in Docs |-> <<>>]
              /\ rows = IF anno_storage = "database"
                        THEN CreatedRows(on1, on2) ELSE <<>>
              /\ nextNoteId = IF anno_storage = "paperless_notes"
                              THEN Len(on1) + Len(on2) + 1 ELSE 1
              /\ nextRowId = IF anno_storage = "database"
                             THEN Len(on1) + Len(on2) + 1 ELSE 1
    /\ anno_storage = "database" => anno_serializer = Base85GzipJSONSerializer_NAME
    /\ last = NoCall

InitAnnotator == AnnotatorInit /\ LinkQuiet /\ LoopQuiet /\ TaskQuiet

\* the annotation in the body of the request: the stored one, or a copy the
\* client has moved to another page
HeldCopies(a) == {a, [a EXCEPT !.pageIndex = 1 - @]}

AnnotatorNext ==
    \/ \E d \in Docs :
          \E a \in Range(StoredAnnotations(Stores(0), d, Null)) :
              \E f \in FailPoints, held \in HeldCopies(a) : DeleteAnno(d, held, f)
    \/ \E skip \in SUBSET Docs, f \in FailPoints : DeleteAllAnnotations(skip, f)
    \/ \E skip \in SUBSET Docs, r \in Responses : DocumentsWithAnnotations(skip, r)
    \/ Return

SpecAnnotator == InitAnnotator /\ [][AnnotatorNext]_vars

-----------------------------------------------------------------------------
(* Reading stores that hold other records too, and the codec by itself *)

\* the annotations the codec is applied to
CodecInputs ==
    {WithDbId(a, id) :
        a \in AnnoInputs \cup {Thread[i] : i \in 1..Len(Thread)}, id \in NoteDbIds}

\* deserialize(serialize(annotation.model_dump())) for each serializer and
\* each of the annotations, computed once
RECURSIVE SerializedAndBack(_)
SerializedAndBack(pairs) ==
    IF pairs = {} THEN <<>>
    ELSE LET p == CHOOSE p \in pairs : TRUE
         IN  (p :> deserialize(p[1], serialize(p[1], model_dump(p[2]))))
             @@ SerializedAndBack(pairs \ {p})

DeserializedSerialized == SerializedAndBack(SerializerNames \X CodecInputs)

\* _note_content_to_anno(note.note) for the i-th note of the document
DecodeNoteDone(doc_id, n, dec) ==
    last' = [Call("decode", doc_id, NoAnno, Some(n.id),
                  IF dec.raised # "" THEN dec.raised
                  ELSE IF dec.ok THEN "ok" ELSE "None",
                  Null, Null, <<>>)
             EXCEPT !.note = n.note,
                    !.ret_annos = IF dec.ok THEN <<dec.anno>> ELSE <<>>]

DecodeNote(doc_id, i) ==
    /\ Idle
    /\ anno_storage = "paperless_notes"
    /\ i \in 1..Len(notes[doc_id])
    /\ DecodeNoteDone(doc_id, notes[doc_id][i],
                      note_content_to_anno_once(notes[doc_id][i].note))
    /\ UNCHANGED <<linkVars, loopVars, taskVars, anno_storage, anno_serializer,
                   notes, nextNoteId, rows, nextRowId>>

\* _note_content_to_anno(_anno_to_note_content(a)), and
\* deserialize(serialize(a.model_dump())) with the configured serializer
EncodeDecodeDone(a, enc) ==
    last' = [Call("roundtrip", 0, a, a.db_id,
                  IF enc.ok THEN "ok" ELSE "ValueError: reserved delimiter",
                  Null, Null, <<>>)
             EXCEPT !.note = enc.content,
                    !.ret_annos =
                        IF enc.ok /\ note_content_to_anno_once(enc.content).ok
                        THEN <<note_content_to_anno_once(enc.content).anno>>
                        ELSE <<>>,
                    !.ret_obj = DeserializedSerialized[<<anno_serializer, a>>]]

EncodeDecode(a) ==
    /\ Idle
    /\ EncodeDecodeDone(a, anno_to_note_content(anno_serializer, a))
    /\ UNCHANGED <<linkVars, loopVars, taskVars, anno_storage, anno_serializer,
                   notes, nextNoteId, rows, nextRowId>>

\* what a document's notes can be: notes of OtherNoteContents, and the notes
\* of two annotations, one on page 0 and one on page 1
ReadNotes(ser) ==
    OtherNoteContents
    \cup {anno_to_note_content(ser, Thread[1]).content,
          anno_to_note_content(ser, Thread[4]).content}

\* what a row's anno_obj can be: the dump of an annotation, an empty object,
\* an object without type and pageIndex
ReadObjs ==
    {model_dump(Thread[1]), model_dump(Thread[4]), <<>>,
     << <<"created", "\"2024-03-01T10:00:00Z\"">> >>}

PageIndexOf(obj) ==
    IF ValidAnnotationObj(obj) THEN ParseInt(Val(Member(obj, "pageIndex"))) ELSE 0

ReadInit ==
    /\ anno_storage \in StorageNames
    /\ anno_serializer \in SerializerNames
    /\ anno_storage = "database" => anno_serializer = Base85GzipJSONSerializer_NAME
    /\ \E n \in 0..2 :
          IF anno_storage = "paperless_notes"
          THEN /\ \E held \in [1..n -> ReadNotes(anno_serializer)] :
                     notes = [d \in Docs |->
                                IF d = 1
                                THEN [i \in 1..n |-> [id |-> i, note |-> held[i]]]
                                ELSE <<>>]
               /\ nextNoteId = n + 1
               /\ rows = <<>> /\ nextRowId = 1
          ELSE /\ \E held \in [1..n -> ReadObjs] :
                     rows = [i \in 1..n |->
                                [id |-> i, doc_id |-> 1, db_id |-> 0,
                                 page_index |-> PageIndexOf(held[i]),
                                 anno_obj |-> held[i]]]
               /\ nextRowId = n + 1
               /\ notes = [d \in Docs |-> <<>>] /\ nextNoteId = 1
    /\ last = NoCall

InitRead == ReadInit /\ LinkQuiet /\ LoopQuiet /\ TaskQuiet

ReadNext ==
    \/ \E d \in Docs, page \in Pages, r \in Responses : GetAnnotations(d, page, r)
    \/ \E d \in Docs, i \in 1..2 : DecodeNote(d, i)
    \/ \E a \in CodecInputs : EncodeDecode(a)
    \/ Return

SpecRead == InitRead /\ [][ReadNext]_vars

-----------------------------------------------------------------------------
(* Background tasks: task_auto_update_links on the workers of the task     *)
(* backend.  The workers are threads of one process: they share            *)
(* _custom_field_cache.  A worker runs one task at a time; the loop task   *)
(* never returns.                                                          *)

TasksFollowed == Len(task_queue) + Cardinality({w \in Workers : task_pc[w] # "idle"})

\* task_auto_update_links.enqueue()
enqueue(queue, by) == Append(queue, by)

\* PaperlessAnnotationsConfig.ready, at a start-up of the application
Ready ==
    /\ TasksFollowed < MaxTasks
    /\ task_queue' = IF enable_auto_update_links
                     THEN enqueue(task_queue, "ready") ELSE task_queue
    /\ UNCHANGED <<storeVars, linkVars, loopVars, enable_auto_update_links,
                   task_pc, task_cf, task_absent, task_created>>

\* POST /webhooks/document_added
DocumentAddedWebhook ==
    /\ TasksFollowed < MaxTasks
    /\ task_queue' = enqueue(task_queue, "webhook")
    /\ UNCHANGED <<storeVars, linkVars, loopVars, enable_auto_update_links,
                   task_pc, task_cf, task_absent, task_created>>

\* a free worker takes the next result: task_auto_update_links() calls
\* auto_update_links_loop()
WorkerStart(w) ==
    /\ task_pc[w] = "idle"
    /\ task_queue # <<>>
    /\ task_queue' = Tail(task_queue)
    /\ task_pc' = [task_pc EXCEPT ![w] = "loop"]
    /\ UNCHANGED <<storeVars, linkVars, loopVars, enable_auto_update_links,
                   task_cf, task_absent, task_created>>

\* the loop begins a cycle: update_document_links calls
\* _get_or_create_custom_link_field
TaskBeginCycle(w) ==
    /\ task_pc[w] = "loop"
    /\ task_pc' = [task_pc EXCEPT ![w] = "check_cache"]
    /\ task_cf' = [task_cf EXCEPT ![w] = Null]
    /\ UNCHANGED <<storeVars, linkVars, loopVars, enable_auto_update_links,
                   task_queue, task_absent, task_created>>

\* if CUSTOM_FIELD_NAME in _custom_field_cache: return the cached field
TaskCheckCache(w) ==
    /\ task_pc[w] = "check_cache"
    /\ IF ~IsNull(custom_field_cache)
       THEN /\ task_cf' = [task_cf EXCEPT ![w] = custom_field_cache]
            /\ task_pc' = [task_pc EXCEPT ![w] = "sync"]
       ELSE /\ task_pc' = [task_pc EXCEPT ![w] = "lookup"]
            /\ UNCHANGED task_cf
    /\ UNCHANGED <<storeVars, linkVars, loopVars, enable_auto_update_links,
                   task_queue, task_absent, task_created>>

\* an `if cf:` that never finds the field
lookup_never_finds(cf) == FALSE

\* if cf:
lookup_found(cf) == ~IsNull(cf)

\* where the task stands after the lookup with outcome look
TaskLookupDone(w, look) ==
    /\ task_absent' = [task_absent EXCEPT ![w] =
                          FieldIdOf(custom_fields, CUSTOM_FIELD_NAME) = 0]
    /\ IF look.ctx.err
       THEN /\ task_pc' = [task_pc EXCEPT ![w] = "sleep"]
            /\ UNCHANGED task_cf
       ELSE /\ task_cf' = [task_cf EXCEPT ![w] = look.cf]
            /\ task_pc' = [task_pc EXCEPT ![w] =
                              IF lookup_found(look.cf) THEN "store" ELSE "create"]
    /\ UNCHANGED <<storeVars, linkVars, loopVars, enable_auto_update_links,
                   task_queue, task_created>>

\* cf = ppl.get_custom_field_by_name(CUSTOM_FIELD_NAME); an exception ends
\* the cycle (the loop logs it)
TaskLookup(w, faultAt) ==
    /\ task_pc[w] = "lookup"
    /\ TaskLookupDone(w, get_custom_field_by_name(LinkCtx, LinkEnv({}, {}, faultAt),
                                                  custom_fields, 1))

\* cf = ppl.create_custom_field(CUSTOM_FIELD_NAME, data_type="url")
TaskCreate(w, resp) ==
    /\ task_pc[w] = "create"
    /\ create_calls < MaxCreateCalls
    /\ create_calls' = create_calls + 1
    /\ IF resp = "error"
       THEN /\ task_pc' = [task_pc EXCEPT ![w] = "sleep"]
            /\ UNCHANGED <<custom_fields, create_done, task_cf, task_created>>
       ELSE /\ custom_fields' = Append(custom_fields,
                                       [id |-> Len(custom_fields) + 1,
                                        name |-> CUSTOM_FIELD_NAME])
            /\ create_done' = create_done + 1
            /\ task_cf' = [task_cf EXCEPT ![w] = Some(Len(custom_fields) + 1)]
            /\ task_created' = [task_created EXCEPT
                                   ![w] = Some(Len(custom_fields) + 1)]
            /\ task_pc' = [task_pc EXCEPT ![w] = "store"]
    /\ UNCHANGED <<storeVars, loopVars, docs, custom_field_cache,
                   field_at_first_call, lastLink, prevLink,
                   enable_auto_update_links, task_queue, task_absent>>

\* _custom_field_cache[CUSTOM_FIELD_NAME] = cf; return cf
TaskStore(w) ==
    /\ task_pc[w] = "store"
    /\ custom_field_cache' = task_cf[w]
    /\ task_pc' = [task_pc EXCEPT ![w] = "sync"]
    /\ UNCHANGED <<storeVars, loopVars, custom_fields, docs, create_calls,
                   create_done, field_at_first_call, lastLink, prevLink,
                   enable_auto_update_links, task_queue, task_cf, task_absent,
                   task_created>>

\* the two loops of update_document_links with the field the task holds
sync_documents(ctx, env) ==
    documents_custom_field_query_iter(
        documents_custom_field_query_iter(ctx, env, "missing",
                                          link_not_exists_query, 1),
        env, "outdated", link_is_outdated_query, 1)

TaskSyncDone(w, out) ==
    /\ docs' = out.docs
    /\ task_pc' = [task_pc EXCEPT ![w] = "sleep"]
    /\ UNCHANGED <<storeVars, loopVars, custom_fields, custom_field_cache,
                   create_calls, create_done, field_at_first_call, lastLink,
                   prevLink, enable_auto_update_links, task_queue, task_cf,
                   task_absent, task_created>>

\* the rest of update_document_links
TaskSync(w, faultAt) ==
    /\ task_pc[w] = "sync"
    /\ TaskSyncDone(w, sync_documents(LinkCtx,
                        [LinkEnv({}, {}, faultAt) EXCEPT !.cf = Val(task_cf[w])]))

\* time.sleep(UPDATE_INTERVAL_MINS * 60), then the next cycle
TaskSleep(w) ==
    /\ task_pc[w] = "sleep"
    /\ task_pc' = [task_pc EXCEPT ![w] = "loop"]
    /\ UNCHANGED <<storeVars, linkVars, loopVars, enable_auto_update_links,
                   task_queue, task_cf, task_absent, task_created>>

TaskInit ==
    /\ enable_auto_update_links \in BOOLEAN
    /\ task_queue = <<>>
    /\ task_pc = [w \in Workers |-> "idle"]
    /\ task_cf = [w \in Workers |-> Null]
    /\ task_absent = [w \in Workers |-> FALSE]
    /\ task_created = [w \in Workers |-> Null]

\* the service knows the other field, and the link field or not; the
\* documents carry no instance
InitTasks ==
    /\ StoreQuiet /\ LoopQuiet /\ TaskInit
    /\ custom_fields \in {<<OtherField>>, <<OtherField, LinkField>>}
    /\ docs = [d \in LinkDocs |-> <<>>]
    /\ custom_field_cache = Null
    /\ create_calls = 0
    /\ create_done = 0
    /\ field_at_first_call = "none"
    /\ lastLink = NoLinkCall
    /\ prevLink = FALSE

TaskFaults == {0, 1}

TasksNext ==
    \/ Ready
    \/ DocumentAddedWebhook
    \/ \E w \in Workers : WorkerStart(w)
    \/ \E w \in Workers : TaskBeginCycle(w)
    \/ \E w \in Workers : TaskCheckCache(w)
    \/ \E w \in Workers, f \in TaskFaults : TaskLookup(w, f)
    \/ \E w \in Workers, r \in Responses : TaskCreate(w, r)
    \/ \E w \in Workers : TaskStore(w)
    \/ \E w \in Workers, f \in TaskFaults : TaskSync(w, f)
    \/ \E w \in Workers : TaskSleep(w)

SpecTasks == InitTasks /\ [][TasksNext]_vars

-----------------------------------------------------------------------------
(* Properties of the storage backends *)

NotesBackend == anno_storage = "paperless_notes"

\* the annotation's rendered header or serialized payload holds a delimiter
HasDelimiter(a) ==
    \/ HeaderHasDelimiter(build_note_header(a))
    \/ SerializedHasDelimiter(serialize(anno_serializer, model_dump(a)) \o "\n")

\* the note ids of the call's document before the call, and now
PreIds == NoteIds(last.pre_notes[last.doc_id])
NowIds == NoteIds(notes[last.doc_id])

\* the call's update removed the old note
DeleteStepDone == <<"delete", Val(last.db_id)>> \in {last.writes[i] : i \in 1..Len(last.writes)}

\* C1: in the note backend a create or update of an annotation whose header
\* or payload holds the BEGIN or END delimiter fails with the encoding error
\* before any write: the notes are what they were before the call.
C1_EncodingFailsBeforeAnyWrite ==
    (/\ NotesBackend
     /\ last.op \in {"create", "update"}
     /\ HasDelimiter(last.anno)
     /\ last.result \notin {"MissingIdentifier", "PaperlessAPIError", "NotFound"})
    => (last.result = "ReservedDelimiterCollision" /\ notes = last.pre_notes)

\* C2: in the note backend an update that fails after its delete step leaves
\* the document with neither the old nor a new note of the annotation, and no
\* update, failed or not, leaves the old note together with a new one, or
\* more than one new note.
C2_UpdateAbsentNotDuplicated ==
    (NotesBackend /\ last.op = "update") =>
        /\ (last.result # "ok" /\ ~IsNull(last.db_id) /\ DeleteStepDone)
             => (/\ Val(last.db_id) \notin NowIds
                 /\ NowIds = PreIds \ {Val(last.db_id)})
        /\ (~IsNull(last.db_id) /\ Val(last.db_id) \in PreIds \cap NowIds)
             => NowIds \ PreIds = {}
        /\ Cardinality(NowIds \ PreIds) <= 1
        /\ \A d \in Docs \ {last.doc_id} : notes[d] = last.pre_notes[d]

\* C2 witness: an update whose delete was done and whose recreate failed
C2_Witness ==
    /\ NotesBackend /\ last.op = "update"
    /\ last.result = "PaperlessAPIError"
    /\ ~IsNull(last.db_id) /\ DeleteStepDone
    /\ ~HasDelimiter(last.anno)

\* the record the delete call names was stored on the call's document
DeleteTargetExisted ==
    IF NotesBackend
    THEN Val(last.db_id) \in PreIds
    ELSE objects_get(last.pre_rows, last.db_id, last.doc_id) # {}

DeleteTargetStored ==
    IF NotesBackend
    THEN Val(last.db_id) \in NowIds
    ELSE objects_get(rows, last.db_id, last.doc_id) # {}

\* C3: for both backends delete_annotation_by_id returns true exactly when
\* the record existed on the document and has been removed, and returns
\* false, raising nothing and changing nothing, when it did not exist.
C3_DeleteReturnsWhetherRemoved ==
    last.op = "delete" =>
        /\ (last.ret_bool = Some(TRUE))
             <=> (DeleteTargetExisted /\ ~DeleteTargetStored)
        /\ ~DeleteTargetExisted
             => (/\ last.result = "ok" /\ last.ret_bool = Some(FALSE)
                 /\ notes = last.pre_notes /\ rows = last.pre_rows)

\* C4: in the note backend an update whose db_id names no note of the
\* document fails with NotFound and leaves the document's notes unchanged.
C4_UpdateOfAbsentNoteIsNotFound ==
    (/\ NotesBackend /\ last.op = "update"
     /\ ~IsNull(last.db_id) /\ Val(last.db_id) \notin PreIds)
    => (last.result = "NotFound" /\ notes = last.pre_notes)

\* C5: for both backends an update with a null db_id fails with
\* MissingIdentifier and changes no stored record.
C5_UpdateWithoutIdIsMissingIdentifier ==
    (last.op = "update" /\ IsNull(last.db_id))
    => (/\ last.result = "MissingIdentifier"
        /\ notes = last.pre_notes /\ rows = last.pre_rows)

-----------------------------------------------------------------------------
(* Properties of the link synchronisation *)

UpdateReturned == lastLink.op = "update"

NoRepeat(seq, key(_)) ==
    \A i, j \in 1..Len(seq) : i < j => key(seq[i]) # key(seq[j])

WriteDoc(w) == w.doc
Same(x) == x

LinkFieldId == FieldIdOf(custom_fields, CUSTOM_FIELD_NAME)

LinkInstances(instances, field_id) ==
    {i \in 1..Len(instances) : instances[i].field = field_id}

\* C6: within one call of update_document_links every document is written at
\* most once and appears at most once in the returned list of touched ids,
\* also when a stale index returns a document of the first loop again in the
\* second loop
C6_EachDocumentTouchedOnce ==
    UpdateReturned =>
        /\ NoRepeat(lastLink.writes, WriteDoc)
        /\ NoRepeat(lastLink.updated, Same)

\* C7: the value the repair step of update_document_links writes starts with
\* BASE_URL + "/view/" and is the value the fill step writes for the document
C7_RepairWritesCanonicalUrl ==
    UpdateReturned =>
        \A i \in 1..Len(lastLink.writes) :
            lastLink.writes[i].mode = "outdated" =>
                /\ StartsWith(lastLink.writes[i].value, BASE_URL \o "/view/")
                /\ lastLink.writes[i].value =
                        missing_link_value(lastLink.writes[i].doc)

\* C8: an update_document_links call that directly follows another one, with
\* nothing else changing the documents, nothing skipped, and no stale index
\* or failing connection in either, attaches a link to no document
C8_SecondPassAttachesNothing ==
    (/\ UpdateReturned
     /\ lastLink.after_clean_update
     /\ lastLink.skip = {} /\ lastLink.stale = {} /\ ~lastLink.injected) =>
        \A i \in 1..Len(lastLink.writes) : lastLink.writes[i].mode # "missing"

CachedCallIsLocal ==
    (~LinkIdle /\ ~IsNull(lastLink.pre_cache)) =>
        /\ lastLink.lookups = 0
        /\ lastLink.creates = 0
        /\ lastLink.cf = lastLink.pre_cache

\* C9 as stated: the calls of _get_or_create_custom_link_field in one process
\* make at most one create_custom_field call in total, none when the field
\* existed remotely at the first call, and a call with a cached value makes
\* no lookup and no creation
C9_AtMostOneCreateCall ==
    /\ create_calls <= 1
    /\ (field_at_first_call = "present" => create_calls = 0)
    /\ CachedCallIsLocal

\* C9 amended: at most one create_custom_field call succeeds (a call that
\* failed left nothing cached, and the next call creates again), none is made
\* when the field existed remotely at the first call, and a call with a cached
\* value returns it without lookup or creation
C9_AtMostOneCreateSucceeds ==
    /\ create_done <= 1
    /\ (field_at_first_call = "present" => create_calls = 0)
    /\ CachedCallIsLocal

C9_Witness ==
    /\ ~LinkIdle /\ ~IsNull(lastLink.pre_cache)
    /\ create_done = 1
    /\ create_calls = 2

\* C10: after any sequence of update_document_links and
\* delete_all_document_links calls every document carries at most one
\* instance of the link field
C10_AtMostOneLinkInstance ==
    \A d \in LinkDocs : Cardinality(LinkInstances(docs[d], LinkFieldId)) <= 1

C10_Witness ==
    /\ UpdateReturned
    /\ \E i \in 1..Len(lastLink.writes) :
          LET d == lastLink.writes[i].doc
          IN  /\ lastLink.writes[i].mode = "outdated"
              /\ LinkInstances(lastLink.pre_docs[d], LinkFieldId) # {}
              /\ Cardinality(LinkInstances(docs[d], LinkFieldId)) = 1
              /\ Len(docs[d]) = 2

\* the documents that carried an instance of the link field before the call
LinkedBefore ==
    {d \in LinkDocs :
        LinkInstances(lastLink.pre_docs[d],
                      FieldIdOf(lastLink.pre_fields, CUSTOM_FIELD_NAME)) # {}}

\* C11: after delete_all_document_links returns, with no stale index and no
\* failing connection, no document carries an instance of the link field and
\* the returned count is the number of documents that carried one before
C11_DeleteAllRemovesEveryLink ==
    (/\ lastLink.op = "delete_all" /\ lastLink.result = "ok"
     /\ lastLink.stale = {} /\ ~lastLink.injected) =>
        /\ \A d \in LinkDocs : LinkInstances(docs[d], LinkFieldId) = {}
        /\ lastLink.removed_links = Cardinality(LinkedBefore)

-----------------------------------------------------------------------------
(* Properties of auto_update_links_loop *)

\* C12: in auto_update_links_loop an exception raised inside a scan cycle
\* never ends the loop: it is caught, the loop sleeps, and afterwards a
\* further scan cycle is started
C12_FailedCycleIsFollowedByACycle ==
    /\ [](loop_pc # "raised")
    /\ ((loop_pc = "caught") ~> (loop_pc = "scan"))

C12_Witness ==
    loop_pc = "scan" /\ loop_after_failure

\* C13: within one cycle of auto_update_links_loop no document is written
\* while processing one user and again while processing a later user, and the
\* skip list is empty when a cycle begins
C13_NoCrossUserRewrite ==
    /\ \A w1, w2 \in loop_written : w1[2] = w2[2] => w1[1] = w2[1]
    /\ (loop_pc = "scan" /\ loop_user <= 1) => updated_docs = <<>>
    /\ (loop_pc = "scan" /\ loop_user = 2) => lastLink.skip = {}

C13_Witness ==
    /\ loop_pc = "scan" /\ loop_user = 3
    /\ lastLink.skip # {}
    /\ \E w \in loop_written : w[1] = 1 /\ w[2] \in lastLink.stale
    /\ loop_after_failure

-----------------------------------------------------------------------------
(* Properties of the annotator *)

\* the annotations of the call's document before the call and now
AnnosBefore ==
    Range(get_annotations(anno_storage, last.pre_notes, last.pre_rows,
                          last.doc_id, Null))
AnnosNow ==
    Range(get_annotations(anno_storage, notes, rows, last.doc_id, Null))

DeleteAnnoReturned == last.op = "delete_anno" /\ last.result = "ok"

\* the target of delete_anno as it was stored, and its replies
StoredTarget(a) == a.db_id = last.db_id /\ a.id = last.anno.id
RepliesTo(a, id) == ~IsNull(id) /\ a.inReplyToId = id
SamePage(a) == a.pageIndex = last.anno.pageIndex

NestedReply(a) ==
    /\ ~StoredTarget(a)
    /\ ~RepliesTo(a, last.anno.id)
    /\ \E b \in AnnosBefore :
          /\ RepliesTo(b, last.anno.id) /\ SamePage(b) /\ ~StoredTarget(b)
          /\ RepliesTo(a, b.id)

\* C15: the cascade of delete_anno is one level deep: a reply to a reply of
\* the deleted annotation is still stored afterwards
C15_CascadeIsOneLevelDeep ==
    (DeleteAnnoReturned /\ \E a \in AnnosBefore : StoredTarget(a)) =>
        \A a \in AnnosBefore : NestedReply(a) => a \in AnnosNow

C15_Witness ==
    /\ DeleteAnnoReturned
    /\ \E a \in AnnosBefore \cap AnnosNow, b \in AnnosBefore \ AnnosNow :
          NestedReply(a) /\ RepliesTo(a, b.id) /\ RepliesTo(b, last.anno.id)

AnnosOf(ns, rs, d) == get_annotations(anno_storage, ns, rs, d, Null)

\* C16: when delete_all_annotations fails while deleting an annotation of a
\* document, the documents after it that are not skipped and have
\* annotations still get all their annotations deleted
C16_FailureDoesNotStopLaterDocuments ==
    (last.op = "delete_all_annotations" /\ last.result = "PaperlessAPIError") =>
        \A d \in Docs :
            (d > last.doc_id /\ d \notin last.docs_to_skip) =>
                AnnosOf(notes, rows, d) = <<>>

\* C17: when no call fails, delete_all_annotations(skip_set) returns the ids
\* of the documents outside skip_set that had an annotation, none of them has
\* an annotation afterwards, and the documents of skip_set keep theirs
C17_DeleteAllReturnsProcessedDocuments ==
    (last.op = "delete_all_annotations" /\ last.result = "ok") =>
        /\ last.ret_docs =
              {d \in Docs \ last.docs_to_skip :
                    AnnosOf(last.pre_notes, last.pre_rows, d) # <<>>}
        /\ \A d \in last.ret_docs : AnnosOf(notes, rows, d) = <<>>
        /\ \A d \in last.docs_to_skip :
              AnnosOf(notes, rows, d) = AnnosOf(last.pre_notes, last.pre_rows, d)

C17_Witness ==
    /\ last.op = "delete_all_annotations" /\ last.result = "ok"
    /\ last.ret_docs # {}
    /\ \E d \in last.docs_to_skip : AnnosOf(notes, rows, d) # <<>>

-----------------------------------------------------------------------------
(* Properties of reading annotations back *)

GetNow(doc_id) == get_annotations(anno_storage, notes, rows, doc_id, Null)
GetBefore(doc_id) ==
    get_annotations(anno_storage, last.pre_notes, last.pre_rows, doc_id, Null)

CreateReturned == last.op = "create" /\ last.result = "ok"

\* C18: on both backends, after create_annotation(doc, a) has succeeded,
\* get_annotations(doc) yields an annotation whose db_id is the non-null
\* db_id create returned and whose pageIndex is that of a
C18_CreateThenGet ==
    CreateReturned =>
        /\ ~IsNull(last.ret_id)
        /\ \E g \in Range(GetNow(last.doc_id)) :
              /\ g.db_id = last.ret_id
              /\ g.pageIndex = last.anno.pageIndex

C18_Witness ==
    /\ CreateReturned
    /\ Len(GetNow(last.doc_id)) = 2
    /\ \E g \in Range(GetNow(last.doc_id)) : g.db_id = last.ret_id

UpdateOfExistingReturned ==
    /\ last.op = "update" /\ last.result = "ok"
    /\ \E g \in Range(GetBefore(last.doc_id)) : g.db_id = last.db_id

\* what get_annotations shows of the annotation a client sent
ShowsContentOf(g, a) ==
    /\ g.contents = a.contents
    /\ g.pageIndex = a.pageIndex
    /\ g.id = a.id
    /\ g.inReplyToId = a.inReplyToId

\* C19: on both backends, after update_annotation(doc, a') has succeeded on
\* an existing annotation, get_annotations(doc) yields the content of a'
\* under the db_id update returned, yields nothing else under that db_id or
\* the old one, and yields as many annotations as before
C19_UpdateThenGet ==
    UpdateOfExistingReturned =>
        /\ \E g \in Range(GetNow(last.doc_id)) :
              g.db_id = last.ret_id /\ ShowsContentOf(g, last.anno)
        /\ \A g \in Range(GetNow(last.doc_id)) :
              g.db_id \in {last.db_id, last.ret_id} => ShowsContentOf(g, last.anno)
        /\ Len(GetNow(last.doc_id)) = Len(GetBefore(last.doc_id))

C19_Witness ==
    /\ UpdateOfExistingReturned
    /\ \E g \in Range(GetBefore(last.doc_id)) :
          g.db_id = last.db_id /\ ~ShowsContentOf(g, last.anno)
    /\ Len(GetNow(last.doc_id)) = 2

\* the annotations stored for a document: one for each of its notes, or one
\* for each of its rows
StoredFor(doc_id) ==
    IF anno_storage = "paperless_notes"
    THEN [i \in 1..Len(notes[doc_id]) |->
            [note_content_to_anno_once(notes[doc_id][i].note).anno
                EXCEPT !.db_id = Some(notes[doc_id][i].id)]]
    ELSE LET mine == SelectSeq(rows, LAMBDA r : r.doc_id = doc_id)
         IN  [i \in 1..Len(mine) |->
                [Annotation_from_obj(mine[i].anno_obj)
                    EXCEPT !.db_id = Some(mine[i].id)]]

GetReturned == last.op = "get" /\ last.result = "ok"

\* C20: on both backends get_annotations(doc, page) yields the stored
\* annotations of the document whose pageIndex is page, for page 0 as for
\* the others, and get_annotations(doc) yields all of them
C20_GetFiltersByPage ==
    GetReturned =>
        last.ret_annos =
            SelectSeq(StoredFor(last.doc_id),
                      LAMBDA a : IsNull(last.page) \/ a.pageIndex = Val(last.page))

C20_Witness ==
    /\ GetReturned
    /\ last.page = Some(0)
    /\ Len(last.ret_annos) = 1
    /\ Len(StoredFor(last.doc_id)) = 2

-----------------------------------------------------------------------------
(* Properties of what the backends hold *)

\* C27: every annotation held in storage has pageIndex >= 0, whatever
\* create_annotation and update_annotation calls were made
C27_StoredPageIndexNonNegative ==
    \A d \in Docs :
        \A a \in Range(StoredFor(d)) : a.pageIndex >= 0

DbUpdateReturned == last.op = "update" /\ anno_storage = "database"

RowKeys(rs) == {<<rs[i].id, rs[i].doc_id>> : i \in 1..Len(rs)}

\* C29: on the relational backend update_annotation neither removes nor adds
\* a row, whether it succeeds or fails; a successful update returns the
\* db_id it was given; an update whose (doc_id, db_id) matches no row fails
C29_DbUpdateIsInPlace ==
    DbUpdateReturned =>
        /\ RowKeys(rows) = RowKeys(last.pre_rows)
        /\ Len(rows) = Len(last.pre_rows)
        /\ last.result = "ok" => last.ret_id = last.db_id
        /\ (IsNull(last.db_id)
            \/ <<Val(last.db_id), last.doc_id>> \notin RowKeys(last.pre_rows))
           => /\ last.result # "ok"
              /\ rows = last.pre_rows

C29_Witness ==
    /\ DbUpdateReturned
    /\ last.result = "ok"
    /\ Len(rows) = 2
    /\ rows # last.pre_rows

-----------------------------------------------------------------------------
(* Properties of the paginated document query *)

IterateReturned == lastLink.op = "iterate" /\ lastLink.result = "ok"

\* the ids of the documents the query matches, in the service's order
MatchingIds(q) ==
    LET found == MatchingDocs(q, custom_fields, docs)
    IN  [i \in 1..Len(found) |-> found[i].id]

\* the number of pages the service splits n documents into
NumPages(n) == IF n = 0 THEN 1 ELSE (n + PageSize - 1) \div PageSize

\* page k requested, then the documents of page k, for k = from .. to
RECURSIVE PagewiseTrace(_, _, _)
PagewiseTrace(ids, from, to) ==
    IF from > to THEN <<>>
    ELSE << [kind |-> "page", n |-> from] >>
         \o [i \in 1..(IF from * PageSize <= Len(ids) THEN PageSize
                       ELSE Len(ids) - (from - 1) * PageSize) |->
                [kind |-> "doc", n |-> ids[(from - 1) * PageSize + i]]]
         \o PagewiseTrace(ids, from + 1, to)

\* C30: on a result set that does not change, the iterator requests page 1,
\* yields its documents, requests the next page only when the page named
\* one, and so yields every matching document once, in page order, and
\* stops at the first page without a next page
C30_PagesAreReadInOrder ==
    IterateReturned =>
        lastLink.trace =
            PagewiseTrace(MatchingIds(lastLink.query), 1,
                          NumPages(Len(MatchingIds(lastLink.query))))

C30_Witness ==
    /\ IterateReturned
    /\ Len(MatchingIds(lastLink.query)) = 3
    /\ Len(lastLink.trace) = 3 + NumPages(3)

-----------------------------------------------------------------------------
(* Properties of the background tasks *)

LoopsRunning == {w \in Workers : task_pc[w] # "idle"}

\* C25: at any time at most one instance of auto_update_links_loop is
\* running, whatever start-ups and document_added webhook calls were made
C25_AtMostOneLoopRuns == Cardinality(LoopsRunning) <= 1

Creators == {w \in Workers : ~IsNull(task_created[w])}

LinkFieldsKnown ==
    {i \in 1..Len(custom_fields) : custom_fields[i].name = CUSTOM_FIELD_NAME}

\* C28: a task calls create_custom_field only when its own lookup found the
\* field absent, and every such call that is answered adds a field to the
\* service: two tasks that both looked before either created leave two
\* fields of the name
C28_BothRacingTasksCreate ==
    /\ \A w \in Creators : task_absent[w]
    /\ \A w \in Workers : task_pc[w] = "create" => task_absent[w]
    /\ Cardinality(LinkFieldsKnown) >= Cardinality(Creators)

C28_Witness ==
    /\ Cardinality(Creators) = 2
    /\ Cardinality(LinkFieldsKnown) = 2
    /\ create_calls = 2

-----------------------------------------------------------------------------
(* Properties of reading what others have written *)

\* the annotations among the records of the document: the notes that hold a
\* serialized annotation, the rows whose anno_obj is one
WellFormedFor(doc_id) ==
    IF anno_storage = "paperless_notes"
    THEN LET good == SelectSeq(notes[doc_id],
                        LAMBDA n : n.note \in EncodedNoteContents)
         IN  [i \in 1..Len(good) |->
                [DecodedNoteContents[good[i].note].anno
                    EXCEPT !.db_id = Some(good[i].id)]]
    ELSE LET good == SelectSeq(rows, LAMBDA r : r.doc_id = doc_id
                                               /\ ValidAnnotationObj(r.anno_obj))
         IN  [i \in 1..Len(good) |->
                [Annotation_from_obj(good[i].anno_obj)
                    EXCEPT !.db_id = Some(good[i].id)]]

GetAnswered == last.op = "get" /\ last.result # "PaperlessAPIError"

\* C21: on both backends get_annotations does not abort because of a
\* malformed stored record: it yields every well-formed annotation of the
\* document (of the page) and skips the other records without raising
C21_MalformedRecordsAreSkipped ==
    GetAnswered =>
        /\ last.result = "ok"
        /\ last.ret_annos =
              SelectSeq(WellFormedFor(last.doc_id),
                        LAMBDA a : IsNull(last.page) \/ a.pageIndex = Val(last.page))

DecodeDone == last.op = "decode"

LacksADelimiter(note) ==
    \/ ~Contains(note, ANNOTATION_CONTENT_BEGIN)
    \/ ~Contains(note, ANNOTATION_CONTENT_END)

\* C22: a note that lacks the BEGIN or the END delimiter decodes to None and
\* never raises; a note with both delimiters that names a serializer that is
\* not registered raises the error of get_serializer_by_name
C22_DecodeDiscrimination ==
    DecodeDone =>
        /\ LacksADelimiter(last.note) => last.result = "None"
        /\ last.note \in UnknownSerializerNotes
              => last.result = "ValueError: Serializer not found"

C22_Witness ==
    /\ DecodeDone
    /\ last.note \in UnknownSerializerNotes
    /\ last.result = "ValueError: Serializer not found"
    /\ \E i \in 1..Len(notes[1]) : LacksADelimiter(notes[1][i].note)

\* C23: a note with both delimiters whose region between them carries no
\* serializer name (empty, blank, or END before BEGIN) decodes to None and
\* does not raise
C23_NoSerializerNameIsNone ==
    (DecodeDone /\ last.note \in NoSerializerNameNotes) => last.result = "None"

RoundTripDone == last.op = "roundtrip" /\ last.result = "ok"

Pairs(obj) == {obj[i] : i \in 1..Len(obj)}

\* C24: for each serializer and each annotation, extras included,
\* deserialize(serialize(x)) is x, and decoding the note that encoding the
\* annotation gave yields an annotation with the same fields
C24_RoundTrip ==
    RoundTripDone =>
        /\ Pairs(last.ret_obj) = Pairs(model_dump(last.anno))
        /\ last.ret_annos = <<last.anno>>

C24_Witness ==
    /\ RoundTripDone
    /\ ~IsNull(last.anno.inReplyToId)
    /\ ~IsNull(last.anno.db_id)
    /\ anno_serializer = JsonSerializer_NAME
    /\ last.ret_annos = <<last.anno>>

-----------------------------------------------------------------------------
(* Properties of get_all_documents_with_annotations *)

DocumentsWithAnnotationsReturned ==
    last.op = "documents_with_annotations" /\ last.result = "ok"

\* the documents among ids, in order, that are not skipped and hold an
\* annotation
RECURSIVE AnnotatedDocuments(_, _)
AnnotatedDocuments(ids, i) ==
    IF i > Len(ids) THEN <<>>
    ELSE (IF ids[i] \notin last.docs_to_skip /\ AnnosOf(notes, rows, ids[i]) # <<>>
          THEN <<ids[i]>> ELSE <<>>)
         \o AnnotatedDocuments(ids, i + 1)

YieldsOf(events) ==
    LET ys == SelectSeq(events, LAMBDA e : e[1] = "yield")
    IN  [i \in 1..Len(ys) |-> ys[i][2]]

TakenOf(events, d) == Len(SelectSeq(events, LAMBDA e : e = Took(d)))

\* C26: get_all_documents_with_annotations yields the documents that are not
\* in skip_set and have an annotation, each once, and takes no further
\* annotation of a document after the first one
C26_DocumentsWithAnnotations ==
    DocumentsWithAnnotationsReturned =>
        /\ YieldsOf(last.writes) = AnnotatedDocuments(SortedIds(Docs), 1)
        /\ \A d \in Docs : TakenOf(last.writes, d) <= 1

C26_Witness ==
    /\ DocumentsWithAnnotationsReturned
    /\ Len(YieldsOf(last.writes)) = 1
    /\ \E d \in last.docs_to_skip : AnnosOf(notes, rows, d) # <<>>
    /\ \E d \in Docs : Len(AnnosOf(notes, rows, d)) > 1 /\ TakenOf(last.writes, d) = 1

-----------------------------------------------------------------------------
(* What delete_anno leaves alone *)

DeleteAnnoCalled == last.op = "delete_anno"

\* the annotation a, stored under the call's document, is the annotation
\* the call was given or an annotation on its page whose inReplyToId is the
\* given annotation's id
TargetOrReply(a) ==
    \/ a.db_id = last.db_id
    \/ a.pageIndex = last.anno.pageIndex /\ a.inReplyToId = last.anno.id

\* the notes of document d that the call has removed, and the rows
RemovedNotes(d) ==
    {n \in Range(last.pre_notes[d]) : n \notin Range(notes[d])}
RemovedRows == {r \in Range(last.pre_rows) : r \notin Range(rows)}

-----------------------------------------------------------------------------
(* What the link synchronisation leaves alone *)

LinkCallMade == lastLink.op \in {"update", "delete_all"}

\* the instances of all fields but field_id, in the order they are stored in
OtherInstances(instances, field_id) ==
    SelectSeq(instances, LAMBDA inst : inst.field # field_id)

\* C32: after update_document_links or delete_all_document_links, whether it
\* returned or raised, every document carries the instances of the fields
\* other than the link field that it carried before, with the same values
C32_OtherFieldsAreLeftAlone ==
    LinkCallMade =>
        \A d \in LinkDocs :
            OtherInstances(docs[d], LinkFieldId) =
                OtherInstances(lastLink.pre_docs[d], LinkFieldId)

\* an update has attached the link to a document that carries an instance of
\* another field, and has rewritten the link of a second document
C32_Witness ==
    /\ lastLink.op = "update" /\ lastLink.result = "ok"
    /\ \E i, j \in 1..Len(lastLink.writes) :
          /\ lastLink.writes[i].mode = "missing"
          /\ OtherInstances(lastLink.pre_docs[lastLink.writes[i].doc],
                            LinkFieldId) # <<>>
          /\ docs[lastLink.writes[i].doc] #
                lastLink.pre_docs[lastLink.writes[i].doc]
          /\ lastLink.writes[j].mode = "outdated"

====
